---- MODULE Spec2Model ----
(***************************************************************************)
(* Verification model of the arXiv crawler's version-resolution and        *)
(* archive-processing pipeline.                                            *)
(*                                                                         *)
(*   SpecArchive : src/src/processing.py  process_source_archive           *)
(*   Spec        : src/src/arxiv_client.py get_all_versions                *)
(*   SpecMeta    : src/src/arxiv_client.py get_paper_metadata              *)
(*   SpecIds     : src/src/utils.py        format_paper_folder_id and the  *)
(*                 per-version output directory of get_all_versions        *)
(*   SpecRefs    : src/src/runner.py       process_paper_references        *)
(*   SpecTask    : src/src/runner.py       process_single_paper_task       *)
(*   SpecPaths   : two process_single_paper_task workers interleaved, and  *)
(*                 the paths each creates, writes or deletes               *)
(*   SpecSampler : src/src/monitor.py      RamSampler, its caller and its  *)
(*                 sampling threads                                        *)
(*                                                                         *)
(* Each specification runs one component and holds the variables of the    *)
(* others at their idle values.                                            *)
(*                                                                         *)
(* File names are sequences of one-character strings so that               *)
(* file.lower().endswith(ext) is computed, not assumed.                    *)
(***************************************************************************)
EXTENDS Integers, Sequences, FiniteSets, TLC

VARIABLES
    \* ---- filesystem and locals of process_source_archive ----
    tar,          \* kind of file at tar_path: "absent", "valid", "invalid", "corrupt"
    archive,      \* members of the valid archive (set of paths), fixed per behaviour
    listing,      \* order in which os.walk yields the archive's .bib files
    temp,         \* directory temp_extract: [exists, files]
    out,          \* directory output_tex_dir: [exists, files]
    pc,           \* position inside process_source_archive
    size_before,
    size_after,
    ret,          \* outcome of the last invocation
    statsLog,     \* processing_stats.jsonl: one entry per record, naming the run that wrote it
    \* ---- observation of the runs (history) ----
    runs,         \* invocations so far
    inKind,       \* kind of file at tar_path when the current run was invoked
    faulted,      \* some filesystem operation of the current run raised
    stuck,        \* files whose os.remove raised in the filter loop of the current run
    bibfault,     \* what raised in the bibliography step: "none", "remove", "move"
    statsfault,   \* the write of the statistics record raised in the current run
    out_before,   \* output_tex_dir as it was when the current run was invoked
    filtered,     \* temp_extract's files right after the filtering step
    prebib,       \* output_tex_dir's files right before bibliography normalisation
    first,        \* outcome of the first fault-free successful run
    \* ---- get_all_versions ----
    gpc,          \* position inside get_all_versions
    attempt,      \* loop variable of the current retry loop
    max_version,
    v_num,
    success,
    tarfiles,     \* revisions whose <version_id>.tar.gz exists in paper_dir
    version_stats,
    result,       \* value returned by get_all_versions
    \* ---- observation of get_all_versions (history) ----
    searched,     \* identifiers handed to the search endpoint, in order (0: base_id)
    retry_logs,   \* "[Retry k/3]" warnings logged by the current retry loop
    sleeps,       \* time.sleep(RETRY_DELAY) calls of the current retry loop
    downloads,    \* download attempts for the current revision
    procs,        \* calls of process_source_archive for the current revision
    base_answer,  \* last answer of the search endpoint for base_id
    failed,       \* revisions logged as "Failed to process ... Skipping."
    processed,    \* revisions for which process_source_archive returned its stats dict
    called,       \* revisions process_source_archive was called for, one entry per call
    version_answer,  \* last answer of the search endpoint for the current revision
    \* ---- get_paper_metadata ----
    mpc,          \* position inside get_paper_metadata
    fetch_all_versions,
    m_attempt,    \* loop variable of the current retry loop
    m_max_version,
    m_v_num,
    latest_paper, \* the base record: [title, authors, journal_ref]
    submission_date,
    revised_dates,
    metadata,     \* value returned by get_paper_metadata
    \* ---- observation of get_paper_metadata (history) ----
    m_tries,      \* searches for the current revision
    m_sleeps,     \* time.sleep(RETRY_DELAY) calls for the current revision
    m_answer,     \* last answer of the search endpoint for the current revision
    m_probed,     \* revisions searched at least once
    m_seen,       \* per revision done: the date its search gave, 0 when skipped
    \* ---- format_paper_folder_id and the per-version output directory ----
    ipc,
    paper_id,
    i_v_num,
    paper_folder_id,
    final_tex_dir,
    \* ---- process_paper_references ----
    rpc,
    r_paper_id,
    raw_references,
    ref_index,    \* position of the for loop in raw_references
    crawled_references,
    references_json,  \* content of <paper_dir>/references.json
    fetched,      \* identifiers handed to get_paper_metadata, in order (history)
    \* ---- process_single_paper_task ----
    tpc,
    t_paper_id,   \* kind of paper_id the task was called with
    task_ret,     \* what the task came to: a returned record or a propagated exception
    processing_stats,  \* total_versions of the dict get_all_versions returned, 0 for {}
    sampler,      \* the RamSampler: [running, stops, saves, lost]
    stages,       \* stages entered, in order (history)
    caught,       \* stages whose exception a handler caught and logged (history)
    meta_calls,   \* fetch_all_versions of each get_paper_metadata call of the task (history)
    \* ---- two interleaved per-paper tasks and the paths they touch ----
    w_id,         \* paper_id of each worker's task
    w_pc,         \* position of each worker inside its task
    w_v,          \* v_num of each worker's revision loop
    disk,         \* files and directories under BASE_DATA_DIR: set of [path, from]
    touched,      \* paths a worker created, wrote or deleted: set of [path, by] (history)
    \* ---- one RamSampler, its caller and its sampling threads ----
    s_running,    \* self._running
    s_samples,    \* len(self._samples)
    s_thread,     \* self._thread: index of the thread last started, 0 for None
    threads,      \* position of each sampling thread inside _sample_loop
    spc,          \* position of the caller: "idle" or inside stop()'s join
    stopped,      \* stop() has returned and start() was not called since (history)
    late          \* samples appended while stopped held (history)

vars == <<tar, archive, listing, temp, out, pc, size_before, size_after, ret,
          statsLog, runs, inKind, faulted, stuck, bibfault, statsfault, out_before,
          filtered, prebib, first,
          gpc, attempt, max_version, v_num, success, tarfiles, version_stats,
          result, searched, retry_logs, sleeps, downloads, procs, base_answer,
          failed, processed, called, version_answer,
          mpc, fetch_all_versions, m_attempt, m_max_version, m_v_num,
          latest_paper, submission_date, revised_dates, metadata, m_tries,
          m_sleeps, m_answer, m_probed, m_seen,
          ipc, paper_id, i_v_num, paper_folder_id, final_tex_dir,
          rpc, r_paper_id, raw_references, ref_index, crawled_references,
          references_json, fetched,
          tpc, t_paper_id, task_ret, processing_stats, sampler, stages, caught,
          meta_calls,
          w_id, w_pc, w_v, disk, touched,
          s_running, s_samples, s_thread, threads, spc, stopped, late>>

archiveVars == <<tar, archive, listing, temp, out, pc, size_before, size_after,
                 ret, statsLog, runs, inKind, faulted, stuck, bibfault, statsfault,
                 out_before, filtered, prebib, first>>

resolverVars == <<gpc, attempt, max_version, v_num, success, tarfiles,
                  version_stats, result, searched, retry_logs, sleeps,
                  downloads, procs, base_answer, failed, processed, called,
                  version_answer>>

metaVars == <<mpc, fetch_all_versions, m_attempt, m_max_version, m_v_num,
              latest_paper, submission_date, revised_dates, metadata, m_tries,
              m_sleeps, m_answer, m_probed, m_seen>>

idVars == <<ipc, paper_id, i_v_num, paper_folder_id, final_tex_dir>>

refVars == <<rpc, r_paper_id, raw_references, ref_index, crawled_references,
             references_json, fetched>>

taskVars == <<tpc, t_paper_id, task_ret, processing_stats, sampler, stages,
              caught, meta_calls>>

pathVars == <<w_id, w_pc, w_v, disk, touched>>

samplerVars == <<s_running, s_samples, s_thread, threads, spc, stopped, late>>

\* what an action of one component leaves alone
exceptArchive == <<resolverVars, metaVars, idVars, refVars, taskVars,
                    pathVars, samplerVars>>
exceptResolver == <<archiveVars, metaVars, idVars, refVars, taskVars,
                     pathVars, samplerVars>>
exceptMeta == <<archiveVars, resolverVars, idVars, refVars, taskVars,
                 pathVars, samplerVars>>
exceptIds == <<archiveVars, resolverVars, metaVars, refVars, taskVars,
                pathVars, samplerVars>>
exceptRefs == <<archiveVars, resolverVars, metaVars, idVars, taskVars,
                 pathVars, samplerVars>>
exceptTask == <<archiveVars, resolverVars, metaVars, idVars, refVars,
                 pathVars, samplerVars>>
exceptPaths == <<archiveVars, resolverVars, metaVars, idVars, refVars,
                 taskVars, samplerVars>>
exceptSampler == <<archiveVars, resolverVars, metaVars, idVars, refVars,
                   taskVars, pathVars>>

----------------------------------------------------------------------------
(* Bounds *)

MaxFiles == 3       \* members of the archive
MaxRuns == 2        \* invocations of process_source_archive in one behaviour
MaxVersion == 3     \* highest revision number the search endpoint reports
MaxDay == 3         \* calendar days the revisions' timestamps fall on
MaxRefs == 2        \* references the citation endpoint lists for one paper
MaxThreads == 2     \* sampling threads one RamSampler starts in one behaviour
MaxSamples == 3     \* samples in the sample list

----------------------------------------------------------------------------
(* Strings *)

UpperAlpha == <<"A","B","C","D","E","F","G","H","I","J","K","L","M",
                "N","O","P","Q","R","S","T","U","V","W","X","Y","Z">>

LowerAlpha == <<"a","b","c","d","e","f","g","h","i","j","k","l","m",
                "n","o","p","q","r","s","t","u","v","w","x","y","z">>

\* str.lower() on one character
LowerChar(c) ==
    IF \E i \in 1..26 : UpperAlpha[i] = c
    THEN LowerAlpha[CHOOSE i \in 1..26 : UpperAlpha[i] = c]
    ELSE c

\* str.lower()
Lower(s) == [i \in 1..Len(s) |-> LowerChar(s[i])]

\* str.endswith(suffix)
EndsWith(s, suffix) ==
    /\ Len(s) >= Len(suffix)
    /\ SubSeq(s, Len(s) - Len(suffix) + 1, Len(s)) = suffix

\* the retention allow-list read by the filter
KEEP_FILES == { <<".","j","s","o","n">>, <<".","b","i","b">>, <<".","t","e","x">> }

BibExt == <<".","b","i","b">>

ReferencesBib == <<"r","e","f","e","r","e","n","c","e","s",".","b","i","b">>

\* file names an archive member can have
BibNames == { <<"a",".","b","i","b">>,
              <<"B",".","B","I","B">>,
              ReferencesBib }

OtherNames == { <<"M",".","T","e","x">>,
                <<"n",".","l","o","g">> }

\* directories of an archive: its root and one subdirectory
RootDir == ""

\* members an archive can have
Paths == ({RootDir} \X (BibNames \cup OtherNames)) \cup ({"sub"} \X BibNames)

----------------------------------------------------------------------------
(* Directory trees: a file is [path, content]; content names the archive   *)
(* member the bytes came from.                                             *)

NoDir == [exists |-> FALSE, files |-> {}]

EmptyDir == [exists |-> TRUE, files |-> {}]

Dir(fs) == [exists |-> TRUE, files |-> fs]

\* the tree tarfile.extractall writes for a set of members
Extracted(members) == { [path |-> p, content |-> p] : p \in members }

\* os.path.getsize: the model gives a member as many bytes as its name has characters
FileSize(f) == Len(f.content[2])

RECURSIVE SumSizes(_)
SumSizes(fs) ==
    IF fs = {} THEN 0
    ELSE LET f == CHOOSE x \in fs : TRUE
         IN FileSize(f) + SumSizes(fs \ {f})

\* monitor.dir_size
dir_size(d) == IF ~d.exists THEN 0 ELSE SumSizes(d.files)

\* config.IMAGE_EXTENSIONS, the extension blacklist of the earlier policy
IMAGE_EXTENSIONS == { <<".","p","n","g">>, <<".","j","p","g">>, <<".","j","p","e","g">>,
                      <<".","g","i","f">>, <<".","p","d","f">>, <<".","e","p","s">>,
                      <<".","s","v","g">> }

\* the filter written against the blacklist instead of the allow-list
IsKeptBlacklist(name) == ~ \E ext \in IMAGE_EXTENSIONS : EndsWith(Lower(name), ext)

\* the test of the filter loop: the file is kept
IsKept(name) == \E ext \in KEEP_FILES : EndsWith(Lower(name), ext)

\* the .bib test without lower()
IsBibCaseSensitive(name) == EndsWith(name, BibExt)

\* the test of the bibliography walk: file.lower().endswith('.bib')
IsBib(name) == EndsWith(Lower(name), BibExt)

PathsOf(fs) == { f.path : f \in fs }

\* all orders os.walk(topdown) can yield a set of paths in: root files first
RECURSIVE Perms(_)
Perms(S) ==
    IF S = {} THEN { <<>> }
    ELSE UNION { { <<x>> \o p : p \in Perms(S \ {x}) } : x \in S }

RootFirst(seq) ==
    \A i, j \in 1..Len(seq) :
        (seq[i][1] = RootDir /\ seq[j][1] # RootDir) => i < j

WalkOrders(S) == { p \in Perms(S) : RootFirst(p) }

\* os.walk over a tree: the .bib files present, in listing order
Walk(fs) == SelectSeq(listing, LAMBDA p : p \in PathsOf(fs))

\* the bib_files list of the normalisation step
BibFiles(fs) == SelectSeq(Walk(fs), LAMBDA p : IsBib(p[2]))

TargetBib == <<RootDir, ReferencesBib>>

FileAt(fs, p) == CHOOSE f \in fs : f.path = p

\* shutil.move(source, target) of one file inside a tree
MoveFile(fs, source, target) ==
    (fs \ {FileAt(fs, source)}) \cup
        { [path |-> target, content |-> FileAt(fs, source).content] }

\* os.remove(p) inside a tree
RemoveFile(fs, p) == { f \in fs : f.path # p }

Max(a, b) == IF a >= b THEN a ELSE b

----------------------------------------------------------------------------
(* process_source_archive, src/src/processing.py                           *)

NoRet == [kind |-> "none", size_before |-> 0, size_after |-> 0,
          deleted_bytes |-> 0, error |-> FALSE]

\* the dict returned on the two error paths
ErrorResult == [kind |-> "returned", size_before |-> 0, size_after |-> 0,
                deleted_bytes |-> 0, error |-> TRUE]

\* the disk_stats dict returned at the end
DiskStats(sb, sa) == [kind |-> "returned", size_before |-> sb, size_after |-> sa,
                      deleted_bytes |-> Max(0, sb - sa), error |-> FALSE]

\* the call is left by an exception
Raised == [kind |-> "raised", size_before |-> 0, size_after |-> 0,
           deleted_bytes |-> 0, error |-> FALSE]

NoFirst == [seen |-> FALSE, run |-> 0, files |-> {}, stats |-> NoRet]

\* the state before the first call: a clean paper_dir, any file at tar_path
ArchiveStart ==
    /\ tar \in {"absent", "valid", "invalid", "corrupt"}
    /\ archive \in { S \in SUBSET Paths : Cardinality(S) <= MaxFiles }
    /\ listing \in WalkOrders({ p \in archive : EndsWith(Lower(p[2]), BibExt) })
    /\ temp = NoDir
    /\ out = NoDir
    /\ pc = "idle"
    /\ size_before = 0
    /\ size_after = 0
    /\ ret = NoRet
    /\ statsLog = <<>>
    /\ runs = 0
    /\ inKind = "absent"
    /\ faulted = FALSE
    /\ stuck = {}
    /\ bibfault = "none"
    /\ statsfault = FALSE
    /\ out_before = NoDir
    /\ filtered = {}
    /\ prebib = {}
    /\ first = NoFirst

\* an exception propagates out of the call
Raise ==
    /\ pc' = "done"
    /\ ret' = Raised

\* a filesystem operation raises and the exception propagates out of the call
Fault ==
    /\ Raise
    /\ faulted' = TRUE

\* the caller invokes process_source_archive(tar_path, output_tex_dir)
Invoke ==
    /\ pc \in {"idle", "done"}
    /\ runs < MaxRuns
    /\ runs' = runs + 1
    /\ inKind' = tar
    /\ faulted' = FALSE
    /\ stuck' = {}
    /\ bibfault' = "none"
    /\ pc' = "prepare"
    /\ ret' = NoRet
    /\ size_before' = 0
    /\ size_after' = 0
    /\ filtered' = {}
    /\ prebib' = {}
    /\ UNCHANGED <<tar, archive, listing, temp, out, statsLog, first>>
    /\ statsfault' = FALSE
    /\ out_before' = out
    /\ UNCHANGED exceptArchive

\* between two calls a bundle is written to tar_path again
Supply ==
    /\ pc = "done"
    /\ runs < MaxRuns
    /\ tar' \in {"valid", "invalid", "corrupt"}
    /\ pc' = "idle"
    /\ UNCHANGED <<archive, listing, temp, out, size_before, size_after, ret,
                   statsLog, runs, inKind, faulted, stuck, bibfault, filtered,
                   prebib, first>>
    /\ UNCHANGED <<statsfault, out_before>>
    /\ UNCHANGED exceptArchive

\* lines 25-30: remove a stale temp_extract, then create it
Prepare ==
    /\ pc = "prepare"
    /\ \/ /\ temp' = EmptyDir
          /\ pc' = "validate"
          /\ UNCHANGED <<ret, faulted>>
       \/ /\ temp.exists              \* shutil.rmtree raises
          /\ Fault
          /\ UNCHANGED temp
    /\ UNCHANGED <<tar, archive, listing, out, size_before, size_after,
                   statsLog, runs, inKind, stuck, bibfault, filtered, prebib, first>>
    /\ UNCHANGED <<statsfault, out_before>>
    /\ UNCHANGED exceptArchive

\* the clean-up of both error paths: rmtree(temp_extract), os.remove(tar_path), return
CleanupAndReturnError ==
    \/ /\ temp' = NoDir
       /\ tar' = "absent"
       /\ pc' = "done"
       /\ ret' = ErrorResult
       /\ UNCHANGED faulted
    \/ /\ Fault                       \* shutil.rmtree raises
       /\ UNCHANGED <<temp, tar>>
    \/ /\ temp' = NoDir               \* os.remove raises
       /\ Fault
       /\ UNCHANGED tar

\* lines 35-51: tarfile.is_tarfile(tar_path)
Validate ==
    /\ pc = "validate"
    /\ \/ /\ tar = "absent"           \* is_tarfile raises FileNotFoundError
          /\ Raise
          /\ UNCHANGED <<temp, tar, faulted>>
       \/ /\ tar = "invalid"
          /\ CleanupAndReturnError
       \/ /\ tar \in {"valid", "corrupt"}
          /\ pc' = "extract"
          /\ UNCHANGED <<temp, tar, ret, faulted>>
    /\ UNCHANGED <<archive, listing, out, size_before, size_after,
                   statsLog, runs, inKind, stuck, bibfault, filtered, prebib, first>>
    /\ UNCHANGED <<statsfault, out_before>>
    /\ UNCHANGED exceptArchive

\* the extraction failure that also removes the directory of an earlier run
ExtractClearingOutput ==
    /\ pc = "extract"
    /\ \/ /\ tar = "valid"
          /\ temp' = Dir(Extracted(archive))
          /\ pc' = "filter"
          /\ UNCHANGED <<tar, ret, faulted, out>>
       \/ /\ tar = "corrupt"          \* extraction raises, handled at lines 56-72
          /\ CleanupAndReturnError
          /\ out' = NoDir
    /\ UNCHANGED <<archive, listing, size_before, size_after,
                   statsLog, runs, inKind, stuck, bibfault, filtered, prebib, first>>
    /\ UNCHANGED <<statsfault, out_before>>
    /\ UNCHANGED exceptArchive

\* lines 53-72: tarfile.open(tar_path).extractall(temp_extract)
Extract ==
    /\ pc = "extract"
    /\ \/ /\ tar = "valid"
          /\ temp' = Dir(Extracted(archive))
          /\ pc' = "filter"
          /\ UNCHANGED <<tar, ret, faulted>>
       \/ /\ tar = "corrupt"          \* extraction raises, handled at lines 56-72
          /\ CleanupAndReturnError
    /\ UNCHANGED <<archive, listing, out, size_before, size_after,
                   statsLog, runs, inKind, stuck, bibfault, filtered, prebib, first>>
    /\ UNCHANGED <<statsfault, out_before>>
    /\ UNCHANGED exceptArchive

\* lines 77-96: size_before, the filter loop, size_after
Filter ==
    /\ pc = "filter"
    /\ LET doomed == { f \in temp.files : ~IsKept(f.path[2]) }
       IN \E failing \in SUBSET doomed :   \* files whose os.remove raises (logged, skipped)
            /\ temp' = Dir(temp.files \ (doomed \ failing))
            /\ stuck' = failing
            /\ faulted' = (faulted \/ failing # {})
    /\ size_before' = dir_size(temp)
    /\ size_after' = dir_size(temp')
    /\ filtered' = temp'.files
    /\ pc' = "replace"
    /\ UNCHANGED <<tar, archive, listing, out, ret, statsLog, runs, inKind,
                   bibfault, prebib, first>>
    /\ UNCHANGED <<statsfault, out_before>>
    /\ UNCHANGED exceptArchive

\* where shutil.move puts a tree when the destination directory exists: inside it
Nested(fs) ==
    { [path |-> << (IF f.path[1] = RootDir THEN "temp_extract" ELSE "temp_extract/sub"),
                   f.path[2] >>,
       content |-> f.content] : f \in fs }

\* the move without the removal of an existing output_tex_dir
ReplaceKeepingOld ==
    /\ pc = "replace"
    /\ \/ /\ out' = (IF out.exists THEN Dir(out.files \cup Nested(temp.files)) ELSE temp)
          /\ temp' = NoDir
          /\ prebib' = out'.files
          /\ pc' = "bib"
          /\ UNCHANGED <<ret, faulted>>
       \/ /\ out.exists
          /\ Fault
          /\ UNCHANGED <<out, temp, prebib>>
       \/ /\ out' = NoDir
          /\ Fault
          /\ UNCHANGED <<temp, prebib>>
    /\ UNCHANGED <<tar, archive, listing, size_before, size_after,
                   statsLog, runs, inKind, stuck, bibfault, filtered, first>>
    /\ UNCHANGED <<statsfault, out_before>>
    /\ UNCHANGED exceptArchive

\* lines 100-103: remove an existing output_tex_dir, move temp_extract there
Replace ==
    /\ pc = "replace"
    /\ \/ /\ out' = temp
          /\ temp' = NoDir
          /\ prebib' = temp.files
          /\ pc' = "bib"
          /\ UNCHANGED <<ret, faulted>>
       \/ /\ out.exists               \* shutil.rmtree(output_tex_dir) raises
          /\ Fault
          /\ UNCHANGED <<out, temp, prebib>>
       \/ /\ out' = NoDir             \* shutil.move raises
          /\ Fault
          /\ UNCHANGED <<temp, prebib>>
    /\ UNCHANGED <<tar, archive, listing, size_before, size_after,
                   statsLog, runs, inKind, stuck, bibfault, filtered, first>>
    /\ UNCHANGED <<statsfault, out_before>>
    /\ UNCHANGED exceptArchive

\* every .bib found moved to references.bib in turn, each over the one before
RenameEveryBib ==
    /\ pc = "bib"
    /\ LET bib_files == BibFiles(out.files)
       IN IF bib_files = <<>>
          THEN UNCHANGED out
          ELSE out' = Dir({ f \in out.files : ~IsBib(f.path[2]) } \cup
                          { [path |-> TargetBib,
                             content |-> FileAt(out.files, bib_files[Len(bib_files)]).content] })
    /\ pc' = "stats"
    /\ UNCHANGED <<tar, archive, listing, temp, size_before, size_after, ret,
                   statsLog, runs, inKind, faulted, bibfault, stuck, filtered,
                   prebib, first>>
    /\ UNCHANGED <<statsfault, out_before>>
    /\ UNCHANGED exceptArchive

\* lines 106-130: rename the first .bib found to references.bib
RenameBib ==
    /\ pc = "bib"
    /\ LET bib_files == BibFiles(out.files)
       IN IF bib_files = <<>> \/ bib_files[1] = TargetBib
          THEN UNCHANGED <<out, faulted, bibfault>>
          ELSE LET source_bib == bib_files[1]
                   exists == TargetBib \in PathsOf(out.files)
                   removed == RemoveFile(out.files, TargetBib)
               IN \/ /\ out' = Dir(MoveFile(removed, source_bib, TargetBib))
                     /\ UNCHANGED <<faulted, bibfault>>
                  \/ /\ exists        \* os.remove(target_bib) raises, caught at 129
                     /\ faulted' = TRUE
                     /\ bibfault' = "remove"
                     /\ UNCHANGED out
                  \/ /\ out' = Dir(removed)   \* shutil.move raises, caught at 129
                     /\ faulted' = TRUE
                     /\ bibfault' = "move"
    /\ pc' = "stats"
    /\ UNCHANGED <<tar, archive, listing, temp, size_before, size_after, ret,
                   statsLog, runs, inKind, stuck, filtered, prebib, first>>
    /\ UNCHANGED <<statsfault, out_before>>
    /\ UNCHANGED exceptArchive

\* the log opened for writing, not for appending: the record replaces the log
AppendStatsTruncating ==
    /\ pc = "stats"
    /\ \/ /\ statsLog' = <<[run |-> runs]>>
          /\ UNCHANGED <<statsfault, out_before>>
       \/ /\ UNCHANGED statsLog
          /\ statsfault' = TRUE
    /\ pc' = "rmtar"
    /\ UNCHANGED out_before
    /\ UNCHANGED <<tar, archive, listing, temp, out, size_before, size_after, ret,
                   runs, inKind, faulted, stuck, bibfault, filtered, prebib, first>>
    /\ UNCHANGED exceptArchive

\* lines 133-139: append_disk_stats; _append_jsonl swallows a failed write
AppendStats ==
    /\ pc = "stats"
    /\ \/ /\ statsLog' = Append(statsLog, [run |-> runs])
          /\ UNCHANGED <<statsfault, out_before>>
       \/ /\ UNCHANGED statsLog              \* the write raises, swallowed at monitor.py 36-39
          /\ statsfault' = TRUE
    /\ pc' = "rmtar"
    /\ UNCHANGED out_before
    /\ UNCHANGED <<tar, archive, listing, temp, out, size_before, size_after, ret,
                   runs, inKind, faulted, stuck, bibfault, filtered, prebib, first>>
    /\ UNCHANGED exceptArchive

\* lines 141-155: remove the archive and return disk_stats
RemoveTarAndReturn ==
    /\ pc = "rmtar"
    /\ \/ /\ tar' = "absent"
          /\ pc' = "done"
          /\ ret' = DiskStats(size_before, size_after)
          /\ first' = IF ~first.seen /\ ~faulted
                      THEN [seen |-> TRUE, run |-> runs, files |-> out.files,
                            stats |-> DiskStats(size_before, size_after)]
                      ELSE first
          /\ UNCHANGED faulted
       \/ /\ Fault                    \* os.remove(tar_path) raises
          /\ UNCHANGED <<tar, first>>
    /\ UNCHANGED <<archive, listing, temp, out, size_before, size_after,
                   statsLog, runs, inKind, stuck, bibfault, filtered, prebib>>
    /\ UNCHANGED <<statsfault, out_before>>
    /\ UNCHANGED exceptArchive

NextArchive ==
    \/ Invoke
    \/ Supply
    \/ Prepare
    \/ Validate
    \/ Extract
    \/ Filter
    \/ Replace
    \/ RenameBib
    \/ AppendStats
    \/ RemoveTarAndReturn

----------------------------------------------------------------------------
(* Properties of process_source_archive (checked under SpecArchive)        *)

Terminal == pc = "done"

ReturnedStats == pc = "done" /\ ret.kind = "returned" /\ ~ret.error

ReturnedError == pc = "done" /\ ret.kind = "returned" /\ ret.error

HasRetainedExt(name) == \E ext \in KEEP_FILES : EndsWith(Lower(name), ext)

EndsWithBib(name) == EndsWith(Lower(name), <<".","b","i","b">>)

BibsOf(fs) == { f \in fs : EndsWithBib(f.path[2]) }

NamedReferencesBib(fs) == { f \in fs : f.path[2] = ReferencesBib }

\* C4: after any terminal outcome of process_source_archive (return with stats,
\* return with an error result, or an exception) neither the archive at tar_path
\* nor the directory temp_extract exists.
C4_NoLitterAfterTerminal ==
    Terminal => (tar = "absent" /\ ~temp.exists)

\* C5: for a tar_path that holds no well-formed archive (a bad file or no file at
\* all) the call never raises: it returns the error result with all three byte
\* counts 0, and temp_extract and the bad file are gone.  Stated for the runs in
\* which no filesystem operation failed.
C5_BadArchiveNeverRaises ==
    (Terminal /\ inKind \in {"absent", "invalid"} /\ ~faulted) =>
        /\ ret = ErrorResult
        /\ ~temp.exists
        /\ tar = "absent"

C8_AtMostOneReferencesBib ==
    ReturnedStats => Cardinality(NamedReferencesBib(out.files)) <= 1

\* C9 as stated: with two or more .bib files only the first found is renamed and
\* every other .bib file keeps its path and content.
C9_OthersUntouched ==
    (ReturnedStats /\ Cardinality(BibsOf(prebib)) >= 2) =>
        \A f \in BibsOf(prebib) :
            f.path # BibFiles(prebib)[1] => f \in out.files

\* C9 amended: with two or more .bib files only the first found is renamed; every
\* other .bib file keeps its path and content, except a references.bib at the
\* tree root that is not the first found: it is removed to make room.
C9_OthersUntouchedExceptRootTarget ==
    (ReturnedStats /\ Cardinality(BibsOf(prebib)) >= 2) =>
        /\ \A f \in BibsOf(prebib) :
              (f.path # BibFiles(prebib)[1] /\ f.path # TargetBib) => f \in out.files
        /\ \A f \in prebib : ~EndsWithBib(f.path[2]) => f \in out.files
        /\ \A f \in out.files \ prebib :
              /\ f.path = TargetBib
              /\ f.content = FileAt(prebib, BibFiles(prebib)[1]).content
        /\ (bibfault = "none" /\ TargetBib \in PathsOf(prebib)
                /\ BibFiles(prebib)[1] # TargetBib) =>
              [path |-> TargetBib, content |-> TargetBib] \notin out.files

\* a root references.bib that was not the first found, next to a third .bib file
C9_Witness ==
    /\ ReturnedStats
    /\ bibfault = "none"
    /\ statsfault = FALSE
    /\ out_before = NoDir
    /\ Cardinality(BibsOf(prebib)) >= 3
    /\ TargetBib \in PathsOf(prebib)
    /\ BibFiles(prebib)[1] # TargetBib

\* C10: a second run on the same valid archive, over the state the earlier runs
\* left, ends with the same files under output_tex_dir and the same size_before,
\* size_after and deleted_bytes as the first run (runs compared: those in which
\* no filesystem operation raised).
C10_Idempotent ==
    (ReturnedStats /\ ~faulted /\ first.seen) =>
        /\ out.files = first.files
        /\ ret = first.stats

\* the second successful run has ended and the archive was not empty
C10_Witness ==
    /\ ReturnedStats
    /\ ~faulted
    /\ first.seen
    /\ first.run < runs
    /\ first.files # {}
    /\ first.stats.deleted_bytes > 0

\* records the current run has in the log
RecordsOfRun == Cardinality({ i \in 1..Len(statsLog) : statsLog[i].run = runs })

\* a step leaves the log as it is or adds one record at its end
AppendOnly ==
    \/ statsLog' = statsLog
    \/ /\ Len(statsLog') = Len(statsLog) + 1
       /\ SubSeq(statsLog', 1, Len(statsLog)) = statsLog

C28_ErrorLeavesOutput == ReturnedError => out = out_before

\* the second call returned an error result over the tree the first call left
C28_Witness ==
    /\ ReturnedError
    /\ runs = 2
    /\ out_before.exists
    /\ out_before.files # {}
    /\ Len(statsLog) = 1

----------------------------------------------------------------------------
(* get_all_versions, src/src/arxiv_client.py                               *)

MAX_RETRIES == 3

NoResult == [kind |-> "none", success |-> FALSE, error |-> "", total_versions |-> 0]

\* {"success": False, "error": ...}
Failure(msg) == [kind |-> "dict", success |-> FALSE, error |-> msg, total_versions |-> 0]

\* {"success": True, "total_versions": ..., "version_stats": ...}
Success(n) == [kind |-> "dict", success |-> TRUE, error |-> "", total_versions |-> n]

\* the bare False returned for an empty base_id
ReturnedFalse == [kind |-> "false", success |-> FALSE, error |-> "", total_versions |-> 0]

\* keys of the dicts process_source_archive returns (lines 44-51, 65-72, 147-153)
ResultKeys(r) ==
    IF r.error
    THEN {"tar_path", "output_tex_dir", "size_before", "size_after", "deleted_bytes", "error"}
    ELSE {"tar_path", "output_tex_dir", "size_before", "size_after", "deleted_bytes"}

\* result.get("success"): None when the dict has no such key
GetSuccess(r) == IF "success" \in ResultKeys(r) THEN TRUE ELSE FALSE

\* the resolver's variables while no call of get_all_versions is modelled
ResolverIdle ==
    /\ gpc = "idle"
    /\ attempt = 0
    /\ max_version = 0
    /\ v_num = 0
    /\ success = FALSE
    /\ tarfiles = {}
    /\ version_stats = <<>>
    /\ result = NoResult
    /\ searched = <<>>
    /\ retry_logs = 0
    /\ sleeps = 0
    /\ downloads = 0
    /\ procs = 0
    /\ base_answer = "none"
    /\ failed = {}
    /\ processed = <<>>
    /\ called = <<>>
    /\ version_answer = "none"

\* the archive processor's variables while get_all_versions is modelled
ArchiveIdle ==
    /\ tar = "absent"
    /\ archive = {}
    /\ listing = <<>>
    /\ temp = NoDir
    /\ out = NoDir
    /\ pc = "idle"
    /\ size_before = 0
    /\ size_after = 0
    /\ ret = NoRet
    /\ statsLog = <<>>
    /\ runs = 0
    /\ inKind = "absent"
    /\ faulted = FALSE
    /\ stuck = {}
    /\ bibfault = "none"
    /\ statsfault = FALSE
    /\ out_before = NoDir
    /\ filtered = {}
    /\ prebib = {}
    /\ first = NoFirst

\* ---- values of get_paper_metadata ----

\* latest_paper before the base search answered
NoPaper == [title |-> "", authors |-> <<>>, journal_ref |-> "None"]

\* records the search endpoint can answer the base search with; journal_ref
\* is None or a non-empty string
Papers == [title : {"T1", "T2"}, authors : {<<"A", "B">>}, journal_ref : {"None", "J"}]

NoMetadata == [kind |-> "none", paper_title |-> "", authors |-> <<>>,
               publication_venue |-> "None", submission_date |-> 0,
               revised_dates |-> <<>>]

\* return None
None == [kind |-> "None", paper_title |-> "", authors |-> <<>>,
         publication_venue |-> "None", submission_date |-> 0,
         revised_dates |-> <<>>]

\* get_paper_metadata's variables while no call of it is modelled
MetaIdle ==
    /\ mpc = "idle"
    /\ fetch_all_versions = FALSE
    /\ m_attempt = 0
    /\ m_max_version = 0
    /\ m_v_num = 0
    /\ latest_paper = NoPaper
    /\ submission_date = 0
    /\ revised_dates = <<>>
    /\ metadata = NoMetadata
    /\ m_tries = 0
    /\ m_sleeps = 0
    /\ m_answer = "none"
    /\ m_probed = {}
    /\ m_seen = <<>>

\* the identifier formatting's variables while it is not modelled
IdsIdle ==
    /\ ipc = "idle"
    /\ paper_id = <<>>
    /\ i_v_num = 0
    /\ paper_folder_id = <<>>
    /\ final_tex_dir = <<>>

\* a file that does not exist
NoFile == [exists |-> FALSE, entries |-> {}]

\* process_paper_references' variables while no call of it is modelled
RefsIdle ==
    /\ rpc = "idle"
    /\ r_paper_id = <<>>
    /\ raw_references = <<>>
    /\ ref_index = 0
    /\ crawled_references = {}
    /\ references_json = NoFile
    /\ fetched = <<>>

NoSampler == [running |-> FALSE, stops |-> 0, saves |-> 0, lost |-> 0]

NoTaskRet == [kind |-> "none", success |-> FALSE, error |-> ""]

\* process_single_paper_task's variables while no call of it is modelled
TaskIdle ==
    /\ tpc = "idle"
    /\ t_paper_id = "none"
    /\ task_ret = NoTaskRet
    /\ processing_stats = 0
    /\ sampler = NoSampler
    /\ stages = <<>>
    /\ caught = {}
    /\ meta_calls = <<>>

\* the two interleaved tasks' variables while they are not modelled
PathsIdle ==
    /\ w_id = <<>>
    /\ w_pc = <<>>
    /\ w_v = <<>>
    /\ disk = {}
    /\ touched = {}

\* the RamSampler's variables while it is not modelled on its own
SamplerIdle ==
    /\ s_running = FALSE
    /\ s_samples = 0
    /\ s_thread = 0
    /\ threads = <<>>
    /\ spc = "idle"
    /\ stopped = FALSE
    /\ late = 0

\* everything but the resolver and the archive processor
OthersIdle == MetaIdle /\ IdsIdle /\ RefsIdle /\ TaskIdle /\ PathsIdle /\ SamplerIdle

InitResolver ==
    /\ gpc = "start"
    /\ attempt = 0
    /\ max_version = 0
    /\ v_num = 0
    /\ success = FALSE
    /\ tarfiles = {}
    /\ version_stats = <<>>
    /\ result = NoResult
    /\ searched = <<>>
    /\ retry_logs = 0
    /\ sleeps = 0
    /\ downloads = 0
    /\ procs = 0
    /\ base_answer = "none"
    /\ failed = {}
    /\ processed = <<>>
    /\ called = <<>>
    /\ version_answer = "none"

Init == InitResolver /\ ArchiveIdle /\ OthersIdle

\* lines 31-37: the guard on base_id
Start ==
    /\ gpc = "start"
    /\ \/ /\ gpc' = "base"                 \* a non-empty base_id
          /\ UNCHANGED result
       \/ /\ gpc' = "returned"             \* empty or None
          /\ result' = ReturnedFalse
    /\ UNCHANGED <<attempt, max_version, v_num, success, tarfiles, version_stats,
                   searched, retry_logs, sleeps, downloads, procs, base_answer,
                   failed, processed>>
    /\ UNCHANGED <<called, version_answer>>
    /\ UNCHANGED exceptResolver

\* lines 41-44 and 56-65: the search answers; max_version is read off entry_id
\* (suffix = 0 stands for an entry_id without a vN suffix); the loop over the
\* revisions starts at 1
BaseFound ==
    /\ gpc = "base"
    /\ attempt < MAX_RETRIES
    /\ \E suffix \in 0..MaxVersion :
          max_version' = (IF suffix = 0 THEN 1 ELSE suffix)
    /\ searched' = Append(searched, 0)
    /\ v_num' = 1
    /\ attempt' = 0
    /\ success' = FALSE
    /\ retry_logs' = 0
    /\ sleeps' = 0
    /\ gpc' = "search"
    /\ base_answer' = "found"
    /\ UNCHANGED <<tarfiles, version_stats, result, downloads, procs, failed, processed>>
    /\ UNCHANGED <<called, version_answer>>
    /\ UNCHANGED exceptResolver

\* StopIteration falling into the handler of the other exceptions
BaseNotFoundRetried ==
    /\ gpc = "base"
    /\ attempt < MAX_RETRIES
    /\ searched' = Append(searched, 0)
    /\ base_answer' = "notfound"
    /\ retry_logs' = retry_logs + 1
    /\ sleeps' = sleeps + 1
    /\ attempt' = attempt + 1
    /\ IF attempt + 1 = MAX_RETRIES
       THEN /\ result' = Failure("failed to find latest version")
            /\ gpc' = "returned"
       ELSE UNCHANGED <<result, gpc>>
    /\ UNCHANGED <<max_version, v_num, success, tarfiles, version_stats,
                   downloads, procs, failed, processed>>
    /\ UNCHANGED <<called, version_answer>>
    /\ UNCHANGED exceptResolver

\* lines 45-47: StopIteration
BaseNotFound ==
    /\ gpc = "base"
    /\ attempt < MAX_RETRIES
    /\ searched' = Append(searched, 0)
    /\ base_answer' = "notfound"
    /\ result' = Failure("paper not found")
    /\ gpc' = "returned"
    /\ UNCHANGED <<attempt, max_version, v_num, success, tarfiles, version_stats,
                   retry_logs, sleeps, downloads, procs, failed, processed>>
    /\ UNCHANGED <<called, version_answer>>
    /\ UNCHANGED exceptResolver

\* the retry loop running one attempt too many
BaseErrorOneMore ==
    /\ gpc = "base"
    /\ attempt < MAX_RETRIES + 1
    /\ searched' = Append(searched, 0)
    /\ retry_logs' = retry_logs + 1
    /\ sleeps' = sleeps + 1
    /\ attempt' = attempt + 1
    /\ IF attempt + 1 = MAX_RETRIES + 1
       THEN /\ result' = Failure("failed to find latest version")
            /\ gpc' = "returned"
       ELSE UNCHANGED <<result, gpc>>
    /\ base_answer' = "error"
    /\ UNCHANGED <<max_version, v_num, success, tarfiles, version_stats,
                   downloads, procs, failed, processed>>
    /\ UNCHANGED <<called, version_answer>>
    /\ UNCHANGED exceptResolver

\* lines 48-54: any other exception is logged as a retry and slept on; after the
\* last attempt latest_paper is still None and the call returns the failure
BaseError ==
    /\ gpc = "base"
    /\ attempt < MAX_RETRIES
    /\ searched' = Append(searched, 0)
    /\ retry_logs' = retry_logs + 1
    /\ sleeps' = sleeps + 1
    /\ attempt' = attempt + 1
    /\ IF attempt + 1 = MAX_RETRIES
       THEN /\ result' = Failure("failed to find latest version")
            /\ gpc' = "returned"
       ELSE UNCHANGED <<result, gpc>>
    /\ base_answer' = "error"
    /\ UNCHANGED <<max_version, v_num, success, tarfiles, version_stats,
                   downloads, procs, failed, processed>>
    /\ UNCHANGED <<called, version_answer>>
    /\ UNCHANGED exceptResolver

\* a failed download retried on its own, without a new search
RetryDownloadOnly(dl) ==
    /\ attempt' = attempt + 1
    /\ retry_logs' = retry_logs + 1
    /\ sleeps' = sleeps + 1
    /\ downloads' = downloads + dl
    /\ gpc' = (IF attempt + 1 = MAX_RETRIES THEN "next"
               ELSE IF dl = 1 THEN "download" ELSE "search")
    /\ UNCHANGED <<v_num, success, result, procs>>

\* lines 143-147: the handler of the per-revision retry loop, after dl download
\* attempts in this pass: log, sleep, next attempt; after the last attempt the
\* loop is over
RetryVersion(dl) ==
    /\ attempt' = attempt + 1
    /\ retry_logs' = retry_logs + 1
    /\ sleeps' = sleeps + 1
    /\ downloads' = downloads + dl
    /\ gpc' = (IF attempt + 1 = MAX_RETRIES THEN "next" ELSE "search")
    /\ UNCHANGED <<v_num, success, result, procs>>

\* lines 72-73: the search for version_id answers
VersionFound ==
    /\ gpc = "search"
    /\ searched' = Append(searched, v_num)
    /\ gpc' = "download"
    /\ UNCHANGED <<attempt, max_version, v_num, success, tarfiles, version_stats,
                   result, retry_logs, sleeps, downloads, procs>>
    /\ UNCHANGED <<base_answer, failed, processed>>
    /\ version_answer' = "found"
    /\ UNCHANGED called
    /\ UNCHANGED exceptResolver

\* lines 140-142: StopIteration ends the retry loop of this revision
VersionNotFound ==
    /\ gpc = "search"
    /\ searched' = Append(searched, v_num)
    /\ gpc' = "next"
    /\ UNCHANGED <<attempt, max_version, v_num, success, tarfiles, version_stats,
                   result, retry_logs, sleeps, downloads, procs>>
    /\ UNCHANGED <<base_answer, failed, processed>>
    /\ version_answer' = "notfound"
    /\ UNCHANGED called
    /\ UNCHANGED exceptResolver

\* lines 143-147: the search raises something else
VersionSearchError ==
    /\ gpc = "search"
    /\ searched' = Append(searched, v_num)
    /\ RetryVersion(0)
    /\ UNCHANGED <<max_version, tarfiles, version_stats>>
    /\ UNCHANGED <<base_answer, failed, processed>>
    /\ version_answer' = "error"
    /\ UNCHANGED called
    /\ UNCHANGED exceptResolver

\* lines 77-89 and 103-113: the bundle is written to <version_id>.tar.gz
DownloadOk ==
    /\ gpc = "download"
    /\ downloads' = downloads + 1
    /\ tarfiles' = tarfiles \cup {v_num}
    /\ gpc' = "process"
    /\ UNCHANGED <<attempt, max_version, v_num, success, version_stats, result,
                   searched, retry_logs, sleeps, procs>>
    /\ UNCHANGED <<base_answer, failed, processed>>
    /\ UNCHANGED <<called, version_answer>>
    /\ UNCHANGED exceptResolver

\* lines 88, 107-112: the download raises, having written nothing or a part of the file
DownloadError ==
    /\ gpc = "download"
    /\ \/ UNCHANGED tarfiles
       \/ tarfiles' = tarfiles \cup {v_num}
    /\ RetryVersion(1)
    /\ UNCHANGED <<max_version, version_stats, searched>>
    /\ UNCHANGED <<base_answer, failed, processed>>
    /\ UNCHANGED <<called, version_answer>>
    /\ UNCHANGED exceptResolver

\* lines 99-101 and 114-116: pdf_url is None and there is no /pdf/ link, or the
\* source URL answers with a status other than 200: break
DownloadSkip ==
    /\ gpc = "download"
    /\ \/ UNCHANGED downloads             \* no link: nothing was requested
       \/ downloads' = downloads + 1       \* the request was answered, not with 200
    /\ gpc' = "next"
    /\ UNCHANGED <<attempt, max_version, v_num, success, tarfiles, version_stats,
                   result, searched, retry_logs, sleeps, procs>>
    /\ UNCHANGED <<base_answer, failed, processed>>
    /\ UNCHANGED <<called, version_answer>>
    /\ UNCHANGED exceptResolver

\* what a call of process_source_archive on a downloaded bundle can come to:
\* the stats dict or the error dict with the bundle removed, or an exception
\* with the bundle still there
ProcessOutcomes ==
    { [r |-> DiskStats(1, 1), raised |-> FALSE, tarLeft |-> FALSE],
      [r |-> ErrorResult, raised |-> FALSE, tarLeft |-> FALSE],
      [r |-> Raised, raised |-> TRUE, tarLeft |-> TRUE] }

\* an exception of process_source_archive left to the handler of the retry loop
ProcessRetryOnRaise ==
    /\ gpc = "process"
    /\ \E o \in ProcessOutcomes :
          /\ tarfiles' = (IF o.tarLeft THEN tarfiles ELSE tarfiles \ {v_num})
          /\ version_stats' = (IF ~o.raised /\ GetSuccess(o.r)
                               THEN Append(version_stats, v_num)
                               ELSE version_stats)
          /\ processed' = (IF ~o.raised /\ ~o.r.error
                           THEN Append(processed, v_num)
                           ELSE processed)
          /\ IF o.raised
             THEN /\ attempt' = attempt + 1
                  /\ retry_logs' = retry_logs + 1
                  /\ sleeps' = sleeps + 1
                  /\ gpc' = (IF attempt + 1 = MAX_RETRIES THEN "next" ELSE "search")
                  /\ UNCHANGED success
             ELSE /\ success' = TRUE
                  /\ gpc' = "next"
                  /\ UNCHANGED <<attempt, retry_logs, sleeps>>
    /\ procs' = procs + 1
    /\ UNCHANGED <<max_version, v_num, result, searched, downloads>>
    /\ UNCHANGED <<base_answer, failed>>
    /\ called' = Append(called, v_num)
    /\ UNCHANGED version_answer
    /\ UNCHANGED exceptResolver

\* lines 118-138: process_source_archive, the append to version_stats, the
\* pacing sleep, success = True, break
Process ==
    /\ gpc = "process"
    /\ \E o \in ProcessOutcomes :
          /\ tarfiles' = (IF o.tarLeft THEN tarfiles ELSE tarfiles \ {v_num})
          /\ version_stats' = (IF ~o.raised /\ GetSuccess(o.r)
                               THEN Append(version_stats, v_num)
                               ELSE version_stats)
          /\ processed' = (IF ~o.raised /\ ~o.r.error
                           THEN Append(processed, v_num)
                           ELSE processed)
    /\ procs' = procs + 1
    /\ success' = TRUE
    /\ gpc' = "next"
    /\ UNCHANGED <<attempt, max_version, v_num, result, searched, retry_logs,
                   sleeps, downloads>>
    /\ UNCHANGED <<base_answer, failed>>
    /\ called' = Append(called, v_num)
    /\ UNCHANGED version_answer
    /\ UNCHANGED exceptResolver

\* the loop over the revisions left at the first revision that did not succeed
NextVersionStopAtFailure ==
    /\ gpc = "next"
    /\ failed' = (IF success THEN failed ELSE failed \cup {v_num})
    /\ IF v_num < max_version /\ success
       THEN /\ v_num' = v_num + 1
            /\ attempt' = 0
            /\ success' = FALSE
            /\ retry_logs' = 0
            /\ sleeps' = 0
            /\ downloads' = 0
            /\ procs' = 0
            /\ gpc' = "search"
            /\ version_answer' = "none"
            /\ UNCHANGED result
       ELSE /\ gpc' = "returned"
            /\ result' = Success(max_version)
            /\ UNCHANGED <<v_num, attempt, success, retry_logs, sleeps,
                           downloads, procs, version_answer>>
    /\ UNCHANGED <<max_version, tarfiles, version_stats, searched, base_answer,
                   processed>>
    /\ UNCHANGED called
    /\ UNCHANGED exceptResolver

\* lines 149-156 and the for statement of line 65: the retry loop of v_num is
\* over; go on to the next revision, or return
NextVersion ==
    /\ gpc = "next"
    /\ failed' = (IF success THEN failed ELSE failed \cup {v_num})
    /\ IF v_num < max_version
       THEN /\ v_num' = v_num + 1
            /\ attempt' = 0
            /\ success' = FALSE
            /\ retry_logs' = 0
            /\ sleeps' = 0
            /\ downloads' = 0
            /\ procs' = 0
            /\ gpc' = "search"
            /\ version_answer' = "none"
            /\ UNCHANGED result
       ELSE /\ gpc' = "returned"
            /\ result' = Success(max_version)
            /\ UNCHANGED <<v_num, attempt, success, retry_logs, sleeps,
                           downloads, procs, version_answer>>
    /\ UNCHANGED <<max_version, tarfiles, version_stats, searched, base_answer,
                   processed>>
    /\ UNCHANGED called
    /\ UNCHANGED exceptResolver

Next ==
    \/ Start
    \/ BaseFound
    \/ BaseNotFound
    \/ BaseError
    \/ VersionFound
    \/ VersionNotFound
    \/ VersionSearchError
    \/ DownloadOk
    \/ DownloadError
    \/ DownloadSkip
    \/ Process
    \/ NextVersion

Spec == Init /\ [][Next]_vars

InitArchive == ArchiveStart /\ ResolverIdle /\ OthersIdle

SpecArchive == InitArchive /\ [][NextArchive]_vars

----------------------------------------------------------------------------
(* get_paper_metadata, src/src/arxiv_client.py                             *)

\* a timestamp: <<day, hour>>
Stamps == (1..MaxDay) \X {0, 12}

\* stamp.isoformat().split('T')[0]: the calendar day of the timestamp
DateOf(stamp) == stamp[1]

\* publication_venue if publication_venue else None
VenueOrNone(journal_ref) == IF journal_ref \in {"None", ""} THEN "None" ELSE journal_ref

\* lines 195-201 and 242-248: the dict returned
Metadata(paper, sub, revs) ==
    [kind |-> "dict", paper_title |-> paper.title, authors |-> paper.authors,
     publication_venue |-> VenueOrNone(paper.journal_ref),
     submission_date |-> sub, revised_dates |-> revs]

\* every date appended, seen before or not
AddRevisedAlways(dates, d) == Append(dates, d)

\* lines 237-238: if version_date not in revised_dates: append
AddRevised(dates, d) ==
    IF \E i \in 1..Len(dates) : dates[i] = d THEN dates ELSE Append(dates, d)

\* sorted(revised_dates): ISO dates sort as the days they name
Sorted(dates) == SortSeq(dates, LAMBDA a, b : a < b)

MetaStart ==
    /\ mpc = "base"
    /\ fetch_all_versions \in BOOLEAN
    /\ m_attempt = 0
    /\ m_max_version = 0
    /\ m_v_num = 0
    /\ latest_paper = NoPaper
    /\ submission_date = 0
    /\ revised_dates = <<>>
    /\ metadata = NoMetadata
    /\ m_tries = 0
    /\ m_sleeps = 0
    /\ m_answer = "none"
    /\ m_probed = {}
    /\ m_seen = <<>>

\* lines 171-173 and 185-211: the base search answers. Without
\* fetch_all_versions the dates come from the record itself (lines 191-204);
\* with it max_version is read off entry_id (suffix = 0: no vN suffix) and the
\* loop over the revisions starts at 1
MetaBaseFound ==
    /\ mpc = "base"
    /\ m_attempt < MAX_RETRIES
    /\ \E p \in Papers, suffix \in 0..MaxVersion, published \in Stamps, updated \in Stamps :
          /\ latest_paper' = p
          /\ IF fetch_all_versions
             THEN /\ m_max_version' = (IF suffix = 0 THEN 1 ELSE suffix)
                  /\ m_v_num' = 1
                  /\ m_attempt' = 0
                  /\ mpc' = "probe"
                  /\ UNCHANGED <<submission_date, revised_dates, metadata>>
             ELSE /\ submission_date' = DateOf(published)
                  /\ revised_dates' = (IF DateOf(updated) # DateOf(published)
                                       THEN <<DateOf(updated)>>
                                       ELSE <<>>)
                  /\ metadata' = Metadata(p, submission_date', revised_dates')
                  /\ mpc' = "returned"
                  /\ UNCHANGED <<m_max_version, m_v_num, m_attempt>>
    /\ UNCHANGED <<fetch_all_versions, m_tries, m_sleeps, m_answer, m_probed, m_seen>>
    /\ UNCHANGED exceptMeta

\* lines 174-176: StopIteration on the base search
MetaBaseNotFound ==
    /\ mpc = "base"
    /\ m_attempt < MAX_RETRIES
    /\ metadata' = None
    /\ mpc' = "returned"
    /\ UNCHANGED <<fetch_all_versions, m_attempt, m_max_version, m_v_num,
                   latest_paper, submission_date, revised_dates, m_tries,
                   m_sleeps, m_answer, m_probed, m_seen>>
    /\ UNCHANGED exceptMeta

\* lines 177-183: any other exception on the base search: sleep, next attempt;
\* after the last one latest_paper is still None
MetaBaseError ==
    /\ mpc = "base"
    /\ m_attempt < MAX_RETRIES
    /\ m_attempt' = m_attempt + 1
    /\ IF m_attempt + 1 = MAX_RETRIES
       THEN /\ metadata' = None
            /\ mpc' = "returned"
       ELSE UNCHANGED <<metadata, mpc>>
    /\ UNCHANGED <<fetch_all_versions, m_max_version, m_v_num, latest_paper,
                   submission_date, revised_dates, m_tries, m_sleeps, m_answer,
                   m_probed, m_seen>>
    /\ UNCHANGED exceptMeta

\* lines 219-222 and 232-240: the search for revision m_v_num answers
ProbeFound ==
    /\ mpc = "probe"
    /\ \E updated \in Stamps :
          LET version_date == DateOf(updated) IN
          /\ submission_date' = (IF m_v_num = 1 THEN version_date ELSE submission_date)
          /\ revised_dates' = (IF m_v_num = 1
                               THEN revised_dates
                               ELSE AddRevised(revised_dates, version_date))
          /\ m_seen' = Append(m_seen, version_date)
    /\ m_tries' = m_tries + 1
    /\ m_answer' = "found"
    /\ m_probed' = m_probed \cup {m_v_num}
    /\ mpc' = "advance"
    /\ UNCHANGED <<fetch_all_versions, m_attempt, m_max_version, m_v_num,
                   latest_paper, metadata, m_sleeps>>
    /\ UNCHANGED exceptMeta

\* the whole fetch given up when a revision ran out of attempts
ProbeFailedAbort(answer) ==
    /\ m_tries' = m_tries + 1
    /\ m_sleeps' = m_sleeps + 1
    /\ m_answer' = answer
    /\ m_probed' = m_probed \cup {m_v_num}
    /\ m_attempt' = m_attempt + 1
    /\ IF m_attempt + 1 = MAX_RETRIES
       THEN /\ mpc' = "returned"
            /\ metadata' = None
            /\ m_seen' = Append(m_seen, 0)
       ELSE UNCHANGED <<mpc, metadata, m_seen>>
    /\ UNCHANGED <<fetch_all_versions, m_max_version, m_v_num, latest_paper,
                   submission_date, revised_dates>>

\* lines 223-229: the one handler of the per-revision search, except Exception:
\* whatever was raised is logged as a retry and slept on; after the last
\* attempt version_paper is None and the revision is skipped
ProbeFailed(answer) ==
    /\ m_tries' = m_tries + 1
    /\ m_sleeps' = m_sleeps + 1
    /\ m_answer' = answer
    /\ m_probed' = m_probed \cup {m_v_num}
    /\ m_attempt' = m_attempt + 1
    /\ IF m_attempt + 1 = MAX_RETRIES
       THEN /\ mpc' = "advance"
            /\ m_seen' = Append(m_seen, 0)
            /\ UNCHANGED metadata
       ELSE UNCHANGED <<mpc, metadata, m_seen>>
    /\ UNCHANGED <<fetch_all_versions, m_max_version, m_v_num, latest_paper,
                   submission_date, revised_dates>>

\* line 222 raises StopIteration, a subclass of Exception: caught at line 223
ProbeNotFound ==
    /\ mpc = "probe"
    /\ ProbeFailed("notfound")
    /\ UNCHANGED exceptMeta

\* line 222 raises something else
ProbeError ==
    /\ mpc = "probe"
    /\ ProbeFailed("error")
    /\ UNCHANGED exceptMeta

\* the for statement of line 213 and lines 242-249: the next revision, or the
\* dict with the sorted dates
MetaNextVersion ==
    /\ mpc = "advance"
    /\ IF m_v_num < m_max_version
       THEN /\ m_v_num' = m_v_num + 1
            /\ m_attempt' = 0
            /\ m_tries' = 0
            /\ m_sleeps' = 0
            /\ m_answer' = "none"
            /\ mpc' = "probe"
            /\ UNCHANGED metadata
       ELSE /\ metadata' = Metadata(latest_paper, submission_date, Sorted(revised_dates))
            /\ mpc' = "returned"
            /\ UNCHANGED <<m_v_num, m_attempt, m_tries, m_sleeps, m_answer>>
    /\ UNCHANGED <<fetch_all_versions, m_max_version, latest_paper,
                   submission_date, revised_dates, m_probed, m_seen>>
    /\ UNCHANGED exceptMeta

NextMeta ==
    \/ MetaBaseFound
    \/ MetaBaseNotFound
    \/ MetaBaseError
    \/ ProbeFound
    \/ ProbeNotFound
    \/ ProbeError
    \/ MetaNextVersion

InitMeta ==
    MetaStart /\ ArchiveIdle /\ ResolverIdle /\ IdsIdle /\ RefsIdle /\ TaskIdle
        /\ PathsIdle /\ SamplerIdle

SpecMeta == InitMeta /\ [][NextMeta]_vars

----------------------------------------------------------------------------
(* Properties of get_paper_metadata (checked under SpecMeta)               *)

\* the elements of S in ascending order
AscendingSeqOf(S) ==
    CHOOSE q \in [1..Cardinality(S) -> S] :
        /\ \A x \in S : \E i \in 1..Cardinality(S) : q[i] = x
        /\ \A i \in 1..(Cardinality(S) - 1) : q[i] < q[i+1]

AllProbesSucceeded == \A k \in 1..Len(m_seen) : m_seen[k] # 0

ReturnedTimeline ==
    /\ mpc = "returned"
    /\ fetch_all_versions
    /\ metadata.kind = "dict"

\* C11: with fetch_all_versions, when the search of every revision succeeded,
\* the returned submission_date is the date of revision 1 and revised_dates is
\* the ascending, duplicate-free list of the dates of revisions 2..N.
C11_TimelineFromRevisions ==
    (ReturnedTimeline /\ AllProbesSucceeded) =>
        /\ Len(m_seen) = m_max_version
        /\ metadata.submission_date = m_seen[1]
        /\ metadata.revised_dates =
              AscendingSeqOf({ m_seen[k] : k \in 2..Len(m_seen) })

\* revisions dated 1, 3, 2 give submission_date 1 and revised_dates <<2, 3>>
C11_Witness ==
    /\ ReturnedTimeline
    /\ m_seen = <<1, 3, 2>>
    /\ metadata.submission_date = 1
    /\ metadata.revised_dates = <<2, 3>>

\* C12: with fetch_all_versions, the returned revised_dates does not contain
\* the returned submission_date.
C12_SubmissionNotRevised ==
    ReturnedTimeline =>
        \A i \in 1..Len(metadata.revised_dates) :
            metadata.revised_dates[i] # metadata.submission_date

\* C13: once the search of revision k has signalled no match, the retry loop
\* of k is over: no further search of k, and the no-match answer was not slept
\* on (the sleeps are those of the earlier failed attempts only).
C13_ProbeNotFoundTerminal ==
    m_answer = "notfound" =>
        /\ mpc \in {"advance", "returned"}
        /\ m_sleeps = m_tries - 1

\* C14: with fetch_all_versions, after the base search succeeded, the loop
\* reaches every revision whatever the earlier ones came to (a revision out of
\* attempts is skipped), and the call returns a dict carrying the title, the
\* authors and the venue of the base record.
C14_FailedRevisionSkipped ==
    /\ mpc \in {"probe", "advance"} =>
          \A k \in 1..(m_v_num - 1) : k \in m_probed
    /\ (mpc = "returned" /\ fetch_all_versions /\ latest_paper # NoPaper) =>
          /\ metadata.kind = "dict"
          /\ metadata.paper_title = latest_paper.title
          /\ metadata.authors = latest_paper.authors
          /\ metadata.publication_venue = latest_paper.journal_ref
          /\ m_probed = 1..m_max_version
          /\ Len(m_seen) = m_max_version

\* three revisions, the second out of attempts, the third searched and dated
C14_Witness ==
    /\ ReturnedTimeline
    /\ m_max_version = 3
    /\ m_seen[2] = 0
    /\ m_seen[3] # 0
    /\ m_tries >= 1
    /\ 3 \in m_probed

----------------------------------------------------------------------------
(* format_paper_folder_id, src/src/utils.py, and the per-version output    *)
(* directory of get_all_versions, src/src/arxiv_client.py lines 118-120.   *)
(* Identifiers and paths are sequences of one-character strings.           *)

DigitChars == <<"0","1","2","3","4","5","6","7","8","9">>

\* str(n) for a natural number
RECURSIVE Str(_)
Str(n) ==
    IF n < 10
    THEN <<DigitChars[n + 1]>>
    ELSE Str(n \div 10) \o <<DigitChars[(n % 10) + 1]>>

\* sep in s
Contains(s, sep) == \E i \in 1..Len(s) : s[i] = sep

\* s.split(sep) for a one-character separator
RECURSIVE Split(_, _)
Split(s, sep) ==
    IF ~Contains(s, sep)
    THEN <<s>>
    ELSE LET i == CHOOSE k \in 1..Len(s) :
                     /\ s[k] = sep
                     /\ \A j \in 1..(k - 1) : s[j] # sep
         IN  <<SubSeq(s, 1, i - 1)>> \o Split(SubSeq(s, i + 1, Len(s)), sep)

\* s.replace(old, new) for one-character strings
StrReplace(s, old, new) == [i \in 1..Len(s) |-> IF s[i] = old THEN new ELSE s[i]]

\* Python's None where a string is expected, and the ValueError of an
\* unpacking that does not fit: neither is a sequence of one-character strings
NoneId == <<"None">>
ValueError == <<"ValueError">>

UnknownId == <<"u","n","k","n","o","w","n","-","i","d">>

\* the identifiers of the modern shape YYMM.NNNNN (four digits until 2014)
YYMMs == { <<"2","4","1","1">>, <<"0","7","0","4">> }
Numbers == { <<"0","0","2","2","2">>, <<"0","0","2","2","3">>, <<"0","0","0","1">> }
Modern(yymm, number) == yymm \o <<".">> \o number
ModernIds == { Modern(y, n) : y \in YYMMs, n \in Numbers }

\* the identifiers of the legacy shape category/NNNNNNN
Categories == { <<"m","a","t","h">>,
                <<"h","e","p","-","t","h">>,
                <<"m","a","t","h",".","G","T">>,
                <<"s","o","l","v","-","i","n","t">> }
LegacyNumbers == { <<"0","6","1","0","5","9","5">>, <<"9","9","0","1","0","0","1">> }
Legacy(category, number) == category \o <<"/">> \o number
LegacyIds == { Legacy(c, n) : c \in Categories, n \in LegacyNumbers }

ValidIds == ModernIds \cup LegacyIds

\* every separator replaced by a hyphen, whatever the shape
FormatByReplace(id) == StrReplace(StrReplace(id, ".", "-"), "/", "-")

\* utils.py lines 39-53
format_paper_folder_id(id) ==
    IF id = NoneId
    THEN UnknownId
    ELSE IF Contains(id, "/")
         THEN LET parts == Split(id, "/") IN
              IF Len(parts) = 2
              THEN parts[1] \o <<"-">> \o parts[2]
              ELSE ValueError                    \* category, number = ... does not unpack
         ELSE LET parts == Split(id, ".") IN
              IF Len(parts) >= 2
              THEN parts[1] \o <<"-">> \o parts[2]
              ELSE StrReplace(StrReplace(id, ".", "-"), "/", "-")

\* os.path.join of two relative components
Join(a, b) == a \o <<"/">> \o b

\* config.py line 7
BASE_DATA_DIR == <<".","/","2","3","1","2","0","2","6","0">>

TexDir == <<"t","e","x">>

\* runner.py line 74: paper_dir
PaperDir(folder) == Join(BASE_DATA_DIR, folder)

\* arxiv_client.py line 119: f"{str(base_id).replace('.', '-')}v{v_num}"
VersionFolder(base_id, n) == StrReplace(base_id, ".", "-") \o <<"v">> \o Str(n)

IdsStart ==
    /\ ipc = "start"
    /\ paper_id \in ValidIds
    /\ i_v_num \in 1..MaxVersion
    /\ paper_folder_id = <<>>
    /\ final_tex_dir = <<>>

\* runner.py line 73: paper_folder_id = format_paper_folder_id(paper_id)
FormatFolderId ==
    /\ ipc = "start"
    /\ paper_folder_id' = format_paper_folder_id(paper_id)
    /\ ipc' = "formatted"
    /\ UNCHANGED <<paper_id, i_v_num, final_tex_dir>>
    /\ UNCHANGED exceptIds

\* arxiv_client.py lines 118-120, called with the paper_dir of runner.py line 74
VersionDir ==
    /\ ipc = "formatted"
    /\ final_tex_dir' = Join(Join(PaperDir(paper_folder_id), TexDir),
                             VersionFolder(paper_id, i_v_num))
    /\ ipc' = "versioned"
    /\ UNCHANGED <<paper_id, i_v_num, paper_folder_id>>
    /\ UNCHANGED exceptIds

NextIds ==
    \/ FormatFolderId
    \/ VersionDir

InitIds ==
    IdsStart /\ ArchiveIdle /\ ResolverIdle /\ MetaIdle /\ RefsIdle /\ TaskIdle
        /\ PathsIdle /\ SamplerIdle

SpecIds == InitIds /\ [][NextIds]_vars

----------------------------------------------------------------------------
(* Properties of the identifier formatting (checked under SpecIds)         *)

\* the FolderKey the identifier's shape calls for: the two parts joined by a hyphen
ExpectedFolderKey(id, key) ==
    \/ \E y \in YYMMs, n \in Numbers :
          id = Modern(y, n) /\ key = y \o <<"-">> \o n
    \/ \E c \in Categories, n \in LegacyNumbers :
          id = Legacy(c, n) /\ key = c \o <<"-">> \o n

\* C15: for a modern identifier YYMM.NNNNN the FolderKey is YYMM-NNNNN, for a
\* legacy identifier cat/NNNNNNN it is cat-NNNNNNN; the derivation does not
\* raise, and no other valid identifier has the same FolderKey.
C15_FolderKeyTotalInjective ==
    ipc \in {"formatted", "versioned"} =>
        /\ paper_folder_id # ValueError
        /\ ExpectedFolderKey(paper_id, paper_folder_id)
        /\ \A other \in ValidIds \ {paper_id} :
              format_paper_folder_id(other) # paper_folder_id

\* a legacy identifier whose category holds a dot: only the slash becomes a hyphen
C15_Witness ==
    /\ ipc = "formatted"
    /\ paper_id = Legacy(<<"m","a","t","h",".","G","T">>, <<"0","6","1","0","5","9","5">>)
    /\ paper_folder_id = <<"m","a","t","h",".","G","T","-","0","6","1","0","5","9","5">>

----------------------------------------------------------------------------
(* process_paper_references, src/src/runner.py                             *)

\* identifiers the paper itself can have
RefPaperIds == { Modern(<<"2","4","1","1">>, <<"0","0","2","2","2">>),
                 Legacy(<<"s","o","l","v","-","i","n","t">>, <<"9","9","0","1","0","0","1">>) }

\* base identifiers a listed reference can have
RefBases == RefPaperIds \cup { Modern(<<"2","4","1","1">>, <<"0","0","2","2","3">>) }

\* ref['externalIds']['ArXiv'] of a listed reference: a base identifier, bare
\* or with a version suffix, or nothing (no reference, no externalIds, no ArXiv)
RawRefIds == RefBases \cup { b \o <<"v">> \o Str(2) : b \in RefBases } \cup {NoneId}

\* answers of fetch_references: lists of up to MaxRefs references
RefLists == UNION { [1..n -> RawRefIds] : n \in 0..MaxRefs }

\* line 33: raw.split('v')[0]
SplitAtV(raw) == Split(raw, "v")[1]

\* ref_arxiv_id in crawled_references: a test on the keys of the dict
InCrawled(map, id) == \E e \in map : e.key = id

\* crawled_references[key] = value
Put(map, e) == { x \in map : x.key # e.key } \cup {e}

RefsStart ==
    /\ rpc = "start"
    /\ r_paper_id \in RefPaperIds
    /\ raw_references = <<>>
    /\ ref_index = 0
    /\ crawled_references = {}
    /\ references_json = NoFile
    /\ fetched = <<>>

\* lines 25-29 and 51-54: fetch_references answers (an empty list on a request
\* error); nothing is saved for an empty list
FetchReferences ==
    /\ rpc = "start"
    /\ \E refs \in RefLists :
          /\ raw_references' = refs
          /\ IF refs = <<>>
             THEN rpc' = "returned" /\ UNCHANGED ref_index
             ELSE rpc' = "loop" /\ ref_index' = 1
    /\ UNCHANGED <<r_paper_id, crawled_references, references_json, fetched>>
    /\ UNCHANGED exceptRefs

\* lines 31-36: one pass of the loop that ends at the test of line 32 or at
\* the continue of line 36
SkipReference ==
    /\ rpc = "loop"
    /\ ref_index <= Len(raw_references)
    /\ LET raw == raw_references[ref_index] IN
       \/ raw = NoneId
       \/ /\ raw # NoneId
          /\ \/ SplitAtV(raw) = r_paper_id
             \/ InCrawled(crawled_references, SplitAtV(raw))
    /\ ref_index' = ref_index + 1
    /\ UNCHANGED <<rpc, r_paper_id, raw_references, crawled_references,
                   references_json, fetched>>
    /\ UNCHANGED exceptRefs

\* lines 31-47: one pass of the loop that reaches get_paper_metadata; the
\* endpoint's answer gives a dict, None or an exception
CrawlReference ==
    /\ rpc = "loop"
    /\ ref_index <= Len(raw_references)
    /\ raw_references[ref_index] # NoneId
    /\ LET ref_arxiv_id == SplitAtV(raw_references[ref_index])
           ref_folder_id == format_paper_folder_id(ref_arxiv_id)
       IN  /\ ref_arxiv_id # r_paper_id
           /\ ~InCrawled(crawled_references, ref_arxiv_id)
           /\ \E answer \in {"dict", "None", "raised"} :
                 LET stored == answer = "dict" /\ ref_folder_id # ValueError IN
                 /\ fetched' = Append(fetched, [ref |-> ref_index,
                                                id |-> ref_arxiv_id,
                                                stored |-> stored])
                 /\ crawled_references' =
                       (IF stored
                        THEN Put(crawled_references,
                                 [key |-> ref_folder_id, ref |-> ref_index,
                                  id |-> ref_arxiv_id])
                        ELSE crawled_references)
    /\ ref_index' = ref_index + 1
    /\ UNCHANGED <<rpc, r_paper_id, raw_references, references_json>>
    /\ UNCHANGED exceptRefs

\* lines 49-54: the loop is over; save_json writes references.json or logs
\* its own failure
SaveReferences ==
    /\ rpc = "loop"
    /\ ref_index > Len(raw_references)
    /\ \/ references_json' = [exists |-> TRUE, entries |-> crawled_references]
       \/ UNCHANGED references_json
    /\ rpc' = "returned"
    /\ UNCHANGED <<r_paper_id, raw_references, ref_index, crawled_references, fetched>>
    /\ UNCHANGED exceptRefs

NextRefs ==
    \/ FetchReferences
    \/ SkipReference
    \/ CrawlReference
    \/ SaveReferences

InitRefs ==
    RefsStart /\ ArchiveIdle /\ ResolverIdle /\ MetaIdle /\ IdsIdle /\ TaskIdle
        /\ PathsIdle /\ SamplerIdle

SpecRefs == InitRefs /\ [][NextRefs]_vars

----------------------------------------------------------------------------
(* Properties of process_paper_references (checked under SpecRefs)         *)

IsDigit(c) == \E i \in 1..10 : DigitChars[i] = c

\* the identifier without a trailing v<digits>
StripVersionSuffix(raw) ==
    LET IsSuffixAt(k) == /\ raw[k] = "v"
                         /\ k < Len(raw)
                         /\ \A j \in (k + 1)..Len(raw) : IsDigit(raw[j])
    IN  IF \E k \in 1..Len(raw) : IsSuffixAt(k)
        THEN SubSeq(raw, 1, (CHOOSE k \in 1..Len(raw) : IsSuffixAt(k)) - 1)
        ELSE raw

\* C19: the map has no entry under the paper's own FolderKey, and an
\* identifier whose metadata was fetched and stored is not handed to
\* get_paper_metadata again for a later reference of the list.
C19_NoSelfNoRefetch ==
    /\ \A e \in crawled_references : e.key # format_paper_folder_id(r_paper_id)
    /\ \A i, j \in 1..Len(fetched) :
          (i < j /\ fetched[i].stored) => fetched[j].id # fetched[i].id

\* C20: the identifier looked up for a reference is the listed identifier
\* without its version suffix and nothing else removed, and the reference is
\* stored under the FolderKey of that identifier.
C20_KeyIsFolderKeyOfBaseId ==
    /\ \A i \in 1..Len(fetched) :
          fetched[i].id = StripVersionSuffix(raw_references[fetched[i].ref])
    /\ \A e \in crawled_references :
          e.key = format_paper_folder_id(StripVersionSuffix(raw_references[e.ref]))

----------------------------------------------------------------------------
(* process_single_paper_task, src/src/runner.py                            *)

\* {"paper_id": ..., "success": False, "error": ...}
TaskFailure(msg) == [kind |-> "dict", success |-> FALSE, error |-> msg]

\* {"paper_id": ..., "success": True}
TaskSuccess == [kind |-> "dict", success |-> TRUE, error |-> ""]

\* the call is left by an exception
Propagated(exc) == [kind |-> "raised", success |-> FALSE, error |-> exc]

\* what get_all_versions can come to for a non-empty identifier: its success
\* dict, one of its failure dicts, or an exception
VersionResults ==
    { Success(n) : n \in 1..MaxVersion }
        \cup { Failure("paper not found"), Failure("failed to find latest version") }
        \cup { [kind |-> "raised", success |-> FALSE, error |-> "exception",
                total_versions |-> 0] }

\* monitor.py lines 109-114: stop()
Stopped(smp) == [smp EXCEPT !.running = FALSE, !.stops = @ + 1]

\* monitor.py lines 119-128: save_to_root() appends one record to the RAM log
Saved(smp) == [smp EXCEPT !.saves = @ + 1]

\* save_to_root() that appended nothing: it raised, or the write raised inside
\* _append_jsonl (monitor.py lines 33-39) and was swallowed there
Lost(smp) == [smp EXCEPT !.lost = @ + 1]

TaskStart ==
    /\ tpc = "start"
    /\ t_paper_id \in {"empty", "valid", "malformed"}
    /\ task_ret = NoTaskRet
    /\ processing_stats = 0
    /\ sampler = NoSampler
    /\ stages = <<>>
    /\ caught = {}
    /\ meta_calls = <<>>

\* lines 64-71: the guard on paper_id
Guard ==
    /\ tpc = "start"
    /\ IF t_paper_id = "empty"
       THEN /\ task_ret' = TaskFailure("empty paper_id")
            /\ tpc' = "returned"
       ELSE /\ tpc' = "setup"
            /\ UNCHANGED task_ret
    /\ UNCHANGED <<t_paper_id, processing_stats, sampler, stages, caught>>
    /\ UNCHANGED meta_calls
    /\ UNCHANGED exceptTask

\* lines 73-79, all outside any try: format_paper_folder_id raises on an
\* identifier that does not unpack (utils.py line 44), os.makedirs raises or
\* creates paper_dir, and then the sampler is started
Setup ==
    /\ tpc = "setup"
    /\ stages' = Append(stages, "setup")
    /\ \/ /\ t_paper_id = "malformed"
          /\ task_ret' = Propagated("ValueError")
          /\ tpc' = "raised"
          /\ UNCHANGED sampler
       \/ /\ t_paper_id = "valid"
          /\ \/ /\ task_ret' = Propagated("OSError")         \* os.makedirs
                /\ tpc' = "raised"
                /\ UNCHANGED sampler
             \/ /\ sampler' = [sampler EXCEPT !.running = TRUE]
                /\ tpc' = "versions"
                /\ UNCHANGED task_ret
    /\ UNCHANGED <<t_paper_id, processing_stats, caught>>
    /\ UNCHANGED meta_calls
    /\ UNCHANGED exceptTask

\* the failure of the version resolution is recorded and the task goes on
VersionsGoOnAfterFailure ==
    /\ tpc = "versions"
    /\ stages' = Append(stages, "versions")
    /\ \E r \in VersionResults :
          IF r.kind = "dict" /\ r.success
          THEN /\ processing_stats' = r.total_versions
               /\ tpc' = "metadata"
               /\ UNCHANGED <<task_ret, sampler, caught>>
          ELSE /\ caught' = caught \cup {"versions"}
               /\ \/ sampler' = Saved(Stopped(sampler))
                  \/ sampler' = Lost(Stopped(sampler))        \* passed over at lines 93-96
               /\ task_ret' = TaskFailure(r.error)
               /\ tpc' = "metadata"
               /\ UNCHANGED processing_stats
    /\ UNCHANGED t_paper_id
    /\ UNCHANGED meta_calls
    /\ UNCHANGED exceptTask

\* lines 82-99: get_all_versions; a failure dict is raised as an exception
\* (line 86) and, like any exception, ends the task with the failure record
\* after the sampler was stopped and its samples saved (save errors passed over)
Versions ==
    /\ tpc = "versions"
    /\ stages' = Append(stages, "versions")
    /\ \E r \in VersionResults :
          IF r.kind = "dict" /\ r.success
          THEN /\ processing_stats' = r.total_versions
               /\ tpc' = "metadata"
               /\ UNCHANGED <<task_ret, sampler, caught>>
          ELSE /\ caught' = caught \cup {"versions"}
               /\ \/ sampler' = Saved(Stopped(sampler))
                  \/ sampler' = Lost(Stopped(sampler))        \* passed over at lines 93-96
               /\ task_ret' = TaskFailure(r.error)
               /\ tpc' = "returned"
               /\ UNCHANGED processing_stats
    /\ UNCHANGED t_paper_id
    /\ UNCHANGED meta_calls
    /\ UNCHANGED exceptTask

\* lines 101-107: get_paper_metadata and save_json; an exception is logged
MetadataStage ==
    /\ tpc = "metadata"
    /\ stages' = Append(stages, "metadata")
    /\ \/ UNCHANGED caught
       \/ caught' = caught \cup {"metadata"}
    /\ tpc' = "references"
    /\ meta_calls' = Append(meta_calls, TRUE)         \* line 103: the default of arxiv_client.py line 159
    /\ UNCHANGED <<t_paper_id, task_ret, processing_stats, sampler>>
    /\ UNCHANGED exceptTask

\* lines 109-112: process_paper_references; an exception is logged
ReferencesStage ==
    /\ tpc = "references"
    /\ stages' = Append(stages, "references")
    /\ \/ UNCHANGED caught
       \/ caught' = caught \cup {"references"}
    /\ tpc' = "sampler"
    /\ UNCHANGED <<t_paper_id, task_ret, processing_stats, sampler>>
    /\ UNCHANGED meta_calls
    /\ UNCHANGED exceptTask

\* the samples are saved while the sampler is left running
SamplerStageWithoutStop ==
    /\ tpc = "sampler"
    /\ stages' = Append(stages, "sampler")
    /\ \/ /\ sampler' = Saved(sampler)
          /\ UNCHANGED caught
       \/ /\ sampler' = Lost(sampler)
          /\ UNCHANGED caught
       \/ /\ sampler' = Lost(sampler)
          /\ caught' = caught \cup {"sampler"}
    /\ tpc' = "stats"
    /\ UNCHANGED <<t_paper_id, task_ret, processing_stats>>
    /\ UNCHANGED meta_calls
    /\ UNCHANGED exceptTask

\* lines 114-120: sampler.stop() and save_to_root; an exception is logged
SamplerStage ==
    /\ tpc = "sampler"
    /\ stages' = Append(stages, "sampler")
    /\ \/ /\ sampler' = Saved(Stopped(sampler))
          /\ UNCHANGED caught
       \/ /\ sampler' = Lost(Stopped(sampler))      \* the write raised, swallowed
          /\ UNCHANGED caught
       \/ /\ sampler' = Lost(Stopped(sampler))      \* save_to_root raised, logged
          /\ caught' = caught \cup {"sampler"}
    /\ tpc' = "stats"
    /\ UNCHANGED <<t_paper_id, task_ret, processing_stats>>
    /\ UNCHANGED meta_calls
    /\ UNCHANGED exceptTask

\* lines 122-138: the statistics of the paper; an exception is logged
StatsStage ==
    /\ tpc = "stats"
    /\ stages' = Append(stages, "stats")
    /\ \/ UNCHANGED caught
       \/ caught' = caught \cup {"stats"}
    /\ tpc' = "pace"
    /\ UNCHANGED <<t_paper_id, task_ret, processing_stats, sampler>>
    /\ UNCHANGED meta_calls
    /\ UNCHANGED exceptTask

\* lines 140-150: the pacing sleep and the success record
Finish ==
    /\ tpc = "pace"
    /\ task_ret' = TaskSuccess
    /\ tpc' = "returned"
    /\ UNCHANGED <<t_paper_id, processing_stats, sampler, stages, caught>>
    /\ UNCHANGED meta_calls
    /\ UNCHANGED exceptTask

NextTask ==
    \/ Guard
    \/ Setup
    \/ Versions
    \/ MetadataStage
    \/ ReferencesStage
    \/ SamplerStage
    \/ StatsStage
    \/ Finish

InitTask ==
    TaskStart /\ ArchiveIdle /\ ResolverIdle /\ MetaIdle /\ IdsIdle /\ RefsIdle
        /\ PathsIdle /\ SamplerIdle

SpecTask == InitTask /\ [][NextTask]_vars

----------------------------------------------------------------------------
(* Properties of process_single_paper_task (checked under SpecTask)        *)

\* C18: the task does not leave by an exception, and once a stage raised (in
\* the setup, or caught by a handler) the task ends in the record
\* {paper_id, success: False, error}.
C18_ExceptionBecomesFailure ==
    /\ tpc # "raised"
    /\ task_ret.kind # "raised"
    /\ (tpc = "returned" /\ caught # {}) =>
          /\ task_ret.kind = "dict"
          /\ ~task_ret.success
          /\ task_ret.error # ""

\* the stages the task entered, the stop of the sampler left out
MainStages == SelectSeq(stages, LAMBDA x : x # "sampler")

IsPrefixOf(a, b) == Len(a) <= Len(b) /\ SubSeq(b, 1, Len(a)) = a

\* C25: the task enters its stages in the order directory setup, version
\* resolution, metadata fetch (with fetch_all_versions = True), reference
\* crawl, statistics aggregation, and returns its success record only after
\* all of them; when the version resolution returned a failure result or
\* raised, the task returns {success: False, error} and neither the metadata
\* fetch nor the reference crawl was started.
C25_StageOrder ==
    /\ IsPrefixOf(MainStages, <<"setup", "versions", "metadata", "references", "stats">>)
    /\ \A i \in 1..Len(meta_calls) : meta_calls[i] = TRUE
    /\ Len(meta_calls) = Cardinality({ i \in 1..Len(stages) : stages[i] = "metadata" })
    /\ (tpc = "returned" /\ task_ret.success) =>
          MainStages = <<"setup", "versions", "metadata", "references", "stats">>
    /\ "versions" \in caught =>
          /\ tpc = "returned"
          /\ task_ret.kind = "dict"
          /\ ~task_ret.success
          /\ task_ret.error # ""
          /\ stages = <<"setup", "versions">>
          /\ meta_calls = <<>>

\* a task whose version resolution failed has returned
C25_Witness ==
    /\ tpc = "returned"
    /\ "versions" \in caught
    /\ task_ret = TaskFailure("paper not found")
    /\ stages = <<"setup", "versions">>

\* the task started its sampler (runner.py line 79) and has returned
StartedAndReturned == tpc = "returned" /\ Len(stages) >= 2

\* C26: on every exit path of a task that started its sampler, the sampler
\* was stopped and its result was appended to the RAM log exactly once.
C26_StoppedAndSavedOnce ==
    StartedAndReturned =>
        /\ ~sampler.running
        /\ sampler.stops = 1
        /\ sampler.saves = 1

\* C26 as the code has it: on every exit path the sampler was stopped once
\* and save_to_root was called once after the stop; the log holds the result
\* once if the write succeeded and not at all if it failed.  Before the exit
\* the sampler is never stopped or saved twice, and never saved while running.
C26_StoppedOnceSavedAtMostOnce ==
    /\ sampler.stops <= 1
    /\ sampler.saves + sampler.lost <= sampler.stops
    /\ sampler.running => sampler.stops = 0
    /\ StartedAndReturned =>
          /\ ~sampler.running
          /\ sampler.stops = 1
          /\ sampler.saves + sampler.lost = 1

\* the task returned after a failed version resolution, its sampler stopped
\* and the result in the log
C26_Witness ==
    /\ StartedAndReturned
    /\ "versions" \in caught
    /\ sampler = [running |-> FALSE, stops |-> 1, saves |-> 1, lost |-> 0]

----------------------------------------------------------------------------
(* Properties of get_all_versions (checked under Spec)                     *)

Count(seq, x) == Cardinality({ i \in 1..Len(seq) : seq[i] = x })

NoRevisionTouched ==
    /\ \A i \in 1..Len(searched) : searched[i] = 0
    /\ tarfiles = {}
    /\ downloads = 0
    /\ procs = 0
    /\ version_stats = <<>>

\* C1: the revisions are searched in ascending order without a gap, starting at
\* revision 1, and when the call returns its success result every revision
\* 1..max_version was searched at least once, whatever the earlier ones came to.
C1_AscendingAndComplete ==
    /\ \A i \in 1..Len(searched) :
          IF i = 1 THEN searched[i] = 0
          ELSE searched[i] \in {searched[i-1], searched[i-1] + 1}
    /\ (gpc = "returned" /\ result.success) =>
          \A k \in 1..max_version : Count(searched, k) >= 1
    /\ gpc \in {"search", "download", "process", "next"} =>
          \A k \in 1..(v_num - 1) : Count(searched, k) >= 1

\* three revisions, the second failed after three attempts, the third was searched
C1_Witness ==
    /\ gpc = "returned"
    /\ result = Success(3)
    /\ 2 \in failed
    /\ Count(searched, 2) = MAX_RETRIES
    /\ Count(searched, 1) >= 1
    /\ Count(searched, 3) >= 1

\* C2: once the search endpoint has signalled no match for base_id the call has
\* returned {success: False, error}: the no-match answer was not logged as a
\* retry and not slept on (the retries logged are those of the earlier failed
\* attempts only), and no revision was searched, downloaded or processed.
C2_NotFoundShortCircuit ==
    base_answer = "notfound" =>
        /\ gpc = "returned"
        /\ result = Failure("paper not found")
        /\ retry_logs = Len(searched) - 1
        /\ sleeps = Len(searched) - 1
        /\ NoRevisionTouched

\* no match on the very first search: nothing logged, nothing slept
C2_Witness ==
    /\ base_answer = "notfound"
    /\ Len(searched) = 1
    /\ retry_logs = 0
    /\ sleeps = 0
    /\ result = Failure("paper not found")

\* C3: base_id is searched at most MAX_RETRIES times, and when MAX_RETRIES
\* searches all failed with an error other than not-found the call has returned
\* {success: False, error} without searching, downloading or processing a revision.
C3_BaseRetriesBounded ==
    /\ Count(searched, 0) <= MAX_RETRIES
    /\ (base_answer = "error" /\ Count(searched, 0) >= MAX_RETRIES) =>
          /\ gpc = "returned"
          /\ result = Failure("failed to find latest version")
          /\ NoRevisionTouched

\* three failed searches, three retries logged
C3_Witness ==
    /\ base_answer = "error"
    /\ Count(searched, 0) = MAX_RETRIES
    /\ retry_logs = MAX_RETRIES
    /\ result = Failure("failed to find latest version")

\* C17: the version_stats returned holds one entry for every revision whose
\* bundle process_source_archive processed without an error result, in
\* ascending order, and nothing else.
C17_StatsPerProcessedRevision ==
    (gpc = "returned" /\ result.success) => version_stats = processed

\* C21: when get_all_versions has returned, no downloaded bundle is left in
\* paper_dir, whatever each revision came to.
C21_NoBundleLeft ==
    gpc = "returned" => tarfiles = {}

\* C24: a revision is searched at most MAX_RETRIES times; every attempt starts
\* with the search (a failed search or download is logged, slept on and the
\* revision started over); a no-match answer ends the attempts of the revision
\* at once, unslept; and a revision left without success is logged as failed
\* while the loop goes on to the next one.
C24_RevisionRetriesBounded ==
    /\ \A k \in 1..max_version : Count(searched, k) <= MAX_RETRIES
    /\ gpc \in {"search", "download", "process"} =>
          /\ attempt < MAX_RETRIES
          /\ Count(searched, v_num) = attempt + (IF gpc = "search" THEN 0 ELSE 1)
          /\ retry_logs = attempt
          /\ sleeps = attempt
          /\ downloads <= Count(searched, v_num)
    /\ version_answer = "notfound" =>
          /\ gpc \in {"next", "returned"}
          /\ ~success
          /\ sleeps = Count(searched, v_num) - 1
    /\ \A k \in 1..max_version :
          (k < v_num \/ (gpc = "returned" /\ result.success)) =>
              /\ Count(searched, k) >= 1
              /\ k \in failed <=> Count(called, k) = 0

\* revision 1 was given up after three attempts; revision 2 is started over
\* after a download that raised
C24_Witness ==
    /\ gpc = "search"
    /\ v_num = 2
    /\ 1 \in failed
    /\ Count(searched, 1) = MAX_RETRIES
    /\ attempt = 1
    /\ downloads = 1
    /\ Count(searched, 2) = 1

\* C29: process_source_archive is called at most once for a revision over all
\* its attempts: after the call, whatever it came to, the revision is not
\* searched, downloaded or processed again.
C29_ProcessedAtMostOnce ==
    /\ \A k \in 1..max_version : Count(called, k) <= 1
    /\ procs <= 1
    /\ procs = 1 =>
          /\ gpc \in {"next", "returned"}
          /\ called[Len(called)] = v_num
    /\ gpc \in {"search", "download", "process"} => Count(called, v_num) = 0

\* the call was made on the third attempt and raised: the bundle is still
\* there and the loop is about to leave the revision
C29_Witness ==
    /\ gpc = "next"
    /\ procs = 1
    /\ attempt = MAX_RETRIES - 1
    /\ v_num \in tarfiles
    /\ Count(called, v_num) = 1

----------------------------------------------------------------------------
(* Two process_single_paper_task workers interleaved, src/src/runner.py    *)
(* lines 73-112 with the paths of arxiv_client.py lines 77-120 and         *)
(* processing.py lines 25-142.  Each worker runs the fault-free path of    *)
(* its task over MaxVersion revisions; only an open() below a directory    *)
(* that does not exist raises.  A path is on disk with the paper its       *)
(* content came from.                                                      *)

Workers == {1, 2}

\* p is d or lies below d
Under(p, d) ==
    \/ p = d
    \/ /\ Len(p) > Len(d)
       /\ SubSeq(p, 1, Len(d) + 1) = d \o <<"/">>

\* os.path.dirname
Dirname(p) ==
    LET i == CHOOSE k \in 0..Len(p) :
                 /\ k = 0 \/ p[k] = "/"
                 /\ \A j \in (k + 1)..Len(p) : p[j] # "/"
    IN SubSeq(p, 1, i - 1)

Exists(d, p) == \E e \in d : e.path = p

\* os.makedirs(p, exist_ok=True)
RECURSIVE Makedirs(_, _, _)
Makedirs(d, p, id) ==
    IF p = <<>> \/ Exists(d, p)
    THEN d
    ELSE Makedirs(d, Dirname(p), id) \cup {[path |-> p, from |-> id]}

\* shutil.rmtree(p), os.remove(p)
Rmtree(d, p) == { e \in d : ~Under(e.path, p) }

\* open(p, 'w') and the writes that follow
WriteFile(d, p, id) == { e \in d : e.path # p } \cup {[path |-> p, from |-> id]}

\* shutil.move(src, dst) where dst does not exist: the tree is re-rooted at dst
Move(d, src, dst) ==
    LET moved == { e \in d : Under(e.path, src) } IN
    Makedirs(d \ moved, Dirname(dst), (CHOOSE e \in moved : e.path = src).from)
        \cup { [path |-> dst \o SubSeq(e.path, Len(src) + 1, Len(e.path)),
                from |-> e.from] : e \in moved }

\* runner.py lines 73-74
PaperDirOf(id) == PaperDir(format_paper_folder_id(id))

\* arxiv_client.py line 66
VersionId(id, v) == id \o <<"v">> \o Str(v)

\* arxiv_client.py lines 77-79
TarPath(id, v) ==
    Join(PaperDirOf(id), VersionId(id, v) \o <<".","t","a","r",".","g","z">>)

\* one temp_extract for every worker, directly below BASE_DATA_DIR
TempExtractShared(tar_path) ==
    Join(BASE_DATA_DIR, <<"t","e","m","p","_","e","x","t","r","a","c","t">>)

\* processing.py line 25
TempExtractDir(tar_path) ==
    Join(Dirname(tar_path), <<"t","e","m","p","_","e","x","t","r","a","c","t">>)

\* arxiv_client.py lines 119-120
FinalTexDir(id, v) == Join(Join(PaperDirOf(id), TexDir), VersionFolder(id, v))

\* runner.py line 105, line 49
MetadataJson(id) ==
    Join(PaperDirOf(id), <<"m","e","t","a","d","a","t","a",".","j","s","o","n">>)
ReferencesJson(id) ==
    Join(PaperDirOf(id), <<"r","e","f","e","r","e","n","c","e","s",".","j","s","o","n">>)

MainTex == <<"m","a","i","n",".","t","e","x">>

\* what each step of the task does to the disk

\* runner.py line 75
SetUp(d, id) == Makedirs(d, PaperDirOf(id), id)

\* arxiv_client.py lines 81-112: open(tar_path, 'wb') raises below a missing directory
Downloadable(d, id, v) == Exists(Makedirs(d, PaperDirOf(id), id), Dirname(TarPath(id, v)))
Downloaded(d, id, v) == WriteFile(Makedirs(d, PaperDirOf(id), id), TarPath(id, v), id)

\* processing.py lines 27-30
Prepared(d, id, v) ==
    LET t == TempExtractDir(TarPath(id, v)) IN Makedirs(Rmtree(d, t), t, id)

\* processing.py lines 53-57: the bundle's members land below temp_extract
ExtractedTo(d, id, v) ==
    LET t == TempExtractDir(TarPath(id, v)) IN
    IF Exists(d, TarPath(id, v)) /\ Exists(d, t)
    THEN WriteFile(d, Join(t, MainTex), (CHOOSE e \in d : e.path = TarPath(id, v)).from)
    ELSE d

\* processing.py lines 100-103
Replaced(d, id, v) ==
    LET t == TempExtractDir(TarPath(id, v)) IN
    IF Exists(d, t)
    THEN Move(Rmtree(d, FinalTexDir(id, v)), t, FinalTexDir(id, v))
    ELSE Rmtree(d, FinalTexDir(id, v))

\* processing.py lines 141-142
TarRemoved(d, id, v) == Rmtree(d, TarPath(id, v))

\* runner.py line 105 (output_manager.py lines 22-26)
MetadataSaved(d, id) ==
    WriteFile(Makedirs(d, PaperDirOf(id), id), MetadataJson(id), id)

\* runner.py line 49 (output_manager.py lines 22-26)
ReferencesSaved(d, id) ==
    WriteFile(Makedirs(d, PaperDirOf(id), id), ReferencesJson(id), id)

\* config.py line 21
InitialDisk == {[path |-> BASE_DATA_DIR, from |-> <<>>]}

Touch(w, paths) == touched \cup { [path |-> q, by |-> w] : q \in paths }

\* arxiv_client.py line 65 and lines 149-150: the next revision, or the stage after
AfterRevision(w) ==
    IF w_v[w] < MaxVersion
    THEN /\ w_v' = [w_v EXCEPT ![w] = @ + 1]
         /\ w_pc' = [w_pc EXCEPT ![w] = "download"]
    ELSE /\ w_pc' = [w_pc EXCEPT ![w] = "metadata"]
         /\ UNCHANGED w_v

PathsStart ==
    /\ w_id \in ValidIds \X ValidIds
    /\ w_id[1] # w_id[2]
    /\ w_pc = <<"setup", "setup">>
    /\ w_v = <<0, 0>>
    /\ disk = InitialDisk
    /\ touched = {}

\* runner.py lines 73-75
TaskSetup ==
    /\ \E w \in Workers :
          /\ w_pc[w] = "setup"
          /\ disk' = SetUp(disk, w_id[w])
          /\ touched' = Touch(w, {PaperDirOf(w_id[w])})
          /\ w_pc' = [w_pc EXCEPT ![w] = "download"]
          /\ w_v' = [w_v EXCEPT ![w] = 1]
    /\ UNCHANGED w_id
    /\ UNCHANGED exceptPaths

\* arxiv_client.py lines 77-116
TaskDownload ==
    /\ \E w \in Workers :
          /\ w_pc[w] = "download"
          /\ Downloadable(disk, w_id[w], w_v[w])
          /\ disk' = Downloaded(disk, w_id[w], w_v[w])
          /\ touched' = Touch(w, {PaperDirOf(w_id[w]), TarPath(w_id[w], w_v[w])})
          /\ w_pc' = [w_pc EXCEPT ![w] = "prepare"]
    /\ UNCHANGED <<w_id, w_v>>
    /\ UNCHANGED exceptPaths

\* arxiv_client.py lines 110, 143-150: the open raises at every attempt, the
\* revision is marked failed
TaskDownloadRaises ==
    /\ \E w \in Workers :
          /\ w_pc[w] = "download"
          /\ ~Downloadable(disk, w_id[w], w_v[w])
          /\ disk' = Makedirs(disk, PaperDirOf(w_id[w]), w_id[w])
          /\ touched' = Touch(w, {PaperDirOf(w_id[w]), TarPath(w_id[w], w_v[w])})
          /\ AfterRevision(w)
    /\ UNCHANGED w_id
    /\ UNCHANGED exceptPaths

\* processing.py lines 25-30
TaskPrepare ==
    /\ \E w \in Workers :
          /\ w_pc[w] = "prepare"
          /\ disk' = Prepared(disk, w_id[w], w_v[w])
          /\ touched' = Touch(w, {TempExtractDir(TarPath(w_id[w], w_v[w]))})
          /\ w_pc' = [w_pc EXCEPT ![w] = "extract"]
    /\ UNCHANGED <<w_id, w_v>>
    /\ UNCHANGED exceptPaths

\* processing.py lines 53-57
TaskExtract ==
    /\ \E w \in Workers :
          /\ w_pc[w] = "extract"
          /\ disk' = ExtractedTo(disk, w_id[w], w_v[w])
          /\ touched' = Touch(w, {TempExtractDir(TarPath(w_id[w], w_v[w]))})
          /\ w_pc' = [w_pc EXCEPT ![w] = "replace"]
    /\ UNCHANGED <<w_id, w_v>>
    /\ UNCHANGED exceptPaths

\* processing.py lines 100-103
TaskReplace ==
    /\ \E w \in Workers :
          /\ w_pc[w] = "replace"
          /\ disk' = Replaced(disk, w_id[w], w_v[w])
          /\ touched' = Touch(w, {TempExtractDir(TarPath(w_id[w], w_v[w])),
                                  FinalTexDir(w_id[w], w_v[w])})
          /\ w_pc' = [w_pc EXCEPT ![w] = "rmtar"]
    /\ UNCHANGED <<w_id, w_v>>
    /\ UNCHANGED exceptPaths

\* processing.py lines 141-142, then arxiv_client.py lines 135-137
TaskRemoveTar ==
    /\ \E w \in Workers :
          /\ w_pc[w] = "rmtar"
          /\ disk' = TarRemoved(disk, w_id[w], w_v[w])
          /\ touched' = Touch(w, {TarPath(w_id[w], w_v[w])})
          /\ AfterRevision(w)
    /\ UNCHANGED w_id
    /\ UNCHANGED exceptPaths

\* runner.py lines 101-107
TaskMetadata ==
    /\ \E w \in Workers :
          /\ w_pc[w] = "metadata"
          /\ disk' = MetadataSaved(disk, w_id[w])
          /\ touched' = Touch(w, {MetadataJson(w_id[w])})
          /\ w_pc' = [w_pc EXCEPT ![w] = "references"]
    /\ UNCHANGED <<w_id, w_v>>
    /\ UNCHANGED exceptPaths

\* runner.py lines 109-112 (line 49)
TaskReferences ==
    /\ \E w \in Workers :
          /\ w_pc[w] = "references"
          /\ disk' = ReferencesSaved(disk, w_id[w])
          /\ touched' = Touch(w, {ReferencesJson(w_id[w])})
          /\ w_pc' = [w_pc EXCEPT ![w] = "done"]
    /\ UNCHANGED <<w_id, w_v>>
    /\ UNCHANGED exceptPaths

NextPaths ==
    \/ TaskSetup
    \/ TaskDownload
    \/ TaskDownloadRaises
    \/ TaskPrepare
    \/ TaskExtract
    \/ TaskReplace
    \/ TaskRemoveTar
    \/ TaskMetadata
    \/ TaskReferences

InitPaths ==
    PathsStart /\ ArchiveIdle /\ ResolverIdle /\ MetaIdle /\ IdsIdle /\ RefsIdle
        /\ TaskIdle /\ SamplerIdle

SpecPaths == InitPaths /\ [][NextPaths]_vars

\* one revision of one task run with no other task
RevisionAlone(d, id, v) ==
    IF Downloadable(d, id, v)
    THEN TarRemoved(Replaced(ExtractedTo(Prepared(Downloaded(d, id, v), id, v),
                                       id, v), id, v), id, v)
    ELSE Makedirs(d, PaperDirOf(id), id)

RECURSIVE RevisionsAlone(_, _, _)
RevisionsAlone(d, id, n) ==
    IF n = 0 THEN d ELSE RevisionAlone(RevisionsAlone(d, id, n - 1), id, n)

\* the disk one task leaves behind when it runs with no other task
Alone(id) ==
    ReferencesSaved(MetadataSaved(
        RevisionsAlone(SetUp(InitialDisk, id), id, MaxVersion), id), id)

----------------------------------------------------------------------------
(* RamSampler, src/src/monitor.py lines 56-128: one sampler object, the     *)
(* caller of its start() and stop(), and the sampling threads it started.  *)
(* The caller and the threads interleave at the reads and writes of        *)
(* self._running and at the append to self._samples.                       *)

\* lines 63-67: __init__
SamplerNew ==
    /\ s_running = FALSE
    /\ s_samples = 0
    /\ s_thread = 0
    /\ threads = <<>>
    /\ spc = "idle"
    /\ stopped = FALSE
    /\ late = 0

Alive(i) == threads[i] # "exited"

\* lines 102-107: start()
SamplerStart ==
    /\ spc = "idle"
    /\ IF s_running
       THEN UNCHANGED <<s_running, s_thread, threads, stopped>>      \* line 103-104
       ELSE /\ Len(threads) < MaxThreads
            /\ s_running' = TRUE
            /\ threads' = Append(threads, "test")
            /\ s_thread' = Len(threads) + 1
            /\ stopped' = FALSE
    /\ UNCHANGED <<s_samples, spc, late>>
    /\ UNCHANGED exceptSampler

\* lines 109-114: stop() up to the join
SamplerStop ==
    /\ spc = "idle"
    /\ IF ~s_running
       THEN UNCHANGED <<s_running, spc, stopped>>                     \* line 110-111
       ELSE /\ s_running' = FALSE
            /\ IF s_thread # 0
               THEN /\ spc' = "joining"
                    /\ UNCHANGED stopped
               ELSE /\ stopped' = TRUE
                    /\ UNCHANGED spc
    /\ UNCHANGED <<s_samples, s_thread, threads, late>>
    /\ UNCHANGED exceptSampler

\* line 114: the thread has ended, join returns and so does stop()
JoinReturns ==
    /\ spc = "joining"
    /\ ~Alive(s_thread)
    /\ spc' = "idle"
    /\ stopped' = TRUE
    /\ UNCHANGED <<s_running, s_samples, s_thread, threads, late>>
    /\ UNCHANGED exceptSampler

\* line 114: join(timeout=2.0) gives up on a thread that is still alive
JoinTimesOut ==
    /\ spc = "joining"
    /\ Alive(s_thread)
    /\ spc' = "idle"
    /\ stopped' = TRUE
    /\ UNCHANGED <<s_running, s_samples, s_thread, threads, late>>
    /\ UNCHANGED exceptSampler

\* line 97: while self._running
LoopTest ==
    /\ \E i \in 1..Len(threads) :
          /\ threads[i] = "test"
          /\ threads' = [threads EXCEPT ![i] = IF s_running THEN "append" ELSE "exited"]
    /\ UNCHANGED <<s_running, s_samples, s_thread, spc, stopped, late>>
    /\ UNCHANGED exceptSampler

\* lines 98-99: the sample is taken and appended
LoopAppend ==
    /\ \E i \in 1..Len(threads) :
          /\ threads[i] = "append"
          /\ s_samples < MaxSamples
          /\ s_samples' = s_samples + 1
          /\ late' = IF stopped THEN late + 1 ELSE late
          /\ threads' = [threads EXCEPT ![i] = "sleep"]
    /\ UNCHANGED <<s_running, s_thread, spc, stopped>>
    /\ UNCHANGED exceptSampler

\* line 100: time.sleep(self.sample_interval) is over
LoopWake ==
    /\ \E i \in 1..Len(threads) :
          /\ threads[i] = "sleep"
          /\ threads' = [threads EXCEPT ![i] = "test"]
    /\ UNCHANGED <<s_running, s_samples, s_thread, spc, stopped, late>>
    /\ UNCHANGED exceptSampler

NextSampler ==
    \/ SamplerStart
    \/ SamplerStop
    \/ JoinReturns
    \/ JoinTimesOut
    \/ LoopTest
    \/ LoopAppend
    \/ LoopWake

InitSampler ==
    SamplerNew /\ ArchiveIdle /\ ResolverIdle /\ MetaIdle /\ IdsIdle /\ RefsIdle
        /\ TaskIdle /\ PathsIdle

SpecSampler == InitSampler /\ [][NextSampler]_vars

\* threads that passed the test of self._running and are about to append
Appending == { i \in 1..Len(threads) : threads[i] = "append" }

\* C27: under any calls of start() and stop() and any scheduling of the
\* sampling threads, at most one thread is appending to the sample list at
\* any time, and no sample is appended after stop() has returned and before
\* the next start().
C27_OneAppenderNoneAfterStop ==
    /\ Cardinality(Appending) <= 1
    /\ late = 0

====
